---- MODULE Spec2Model ----
(***************************************************************************)
(* A model of the SPTL-SPI simulation core: the agent memory model         *)
(* (src/src/agents.rs), the activation substrate (src/src/substrate.rs),   *)
(* symbols and meanings (src/src/symbol.rs) and the recursive category     *)
(* object tree (src/src/recursions.rs).                                    *)
(*                                                                         *)
(* Numbers.  The source's f64 quantities (stability, activation, rates,    *)
(* deltas, thresholds) are modelled in fixed point, in hundredths:         *)
(* 1.0 is One = 100, 0.1 is 10, 0.05 is 5, 0.01 is 1.  Sums and            *)
(* differences of such values are exact in the model; the rounding of      *)
(* binary floating point is not modelled.                                  *)
(*                                                                         *)
(* Option<T> is modelled as a sequence of length at most one:              *)
(* None is <<>> and Some(x) is <<x>>.                                      *)
(*                                                                         *)
(* A method taking &mut self and returning a value is an operator that     *)
(* returns the record [self |-> the new object, ret |-> the value].        *)
(***************************************************************************)
EXTENDS Integers, Sequences, FiniteSets, TLC

VARIABLES
    agent,      \* a stand-alone Agent, driven directly (as in tests/symmetry.rs)
    root,       \* Option<CategoryObject>: the tree the driver owns
    last,       \* the last operation called, its arguments and its return value
    steps,      \* the number of operations the driver has called so far
    harness,    \* the locals of the test function of tests/symmetry.rs
    call        \* Option: the tree operation in flight on the thread pool

vars == <<agent, root, last, steps, harness, call>>

None == <<>>
Some(x) == <<x>>

\* no test function is running
NoHarness == [pc |-> "none"]

----------------------------------------------------------------------------
(* Program constants, in hundredths.                                       *)

\* stability: 1.0 of a freshly expressed trace; upper clamp of reinforce
One == 100
\* the fixed delta of interpret_symbol: reinforce_symbol(symbol, 0.1)
InterpretDelta == 10
\* the fixed rate of tick_recursive: decay_memory(0.05), substrate.decay(0.05)
TickRate == 5
\* Substrate::decay retains v > 0.01
PruneThreshold == 1
\* the tau propagate_mutation stamps
MutationTau == 0

----------------------------------------------------------------------------
(* Bounds of the model and the inputs the drivers draw from.               *)

\* the driver of the stand-alone agent calls at most MaxSteps operations
MaxSteps == 4
\* the driver of a run of ticks loads the tree with at most MaxLoads calls
MaxLoads == 3

Taus == {0, 1}
\* the (token, pattern) pairs the drivers express and interpret: one token
\* with two patterns (rebinding), and a second token
SymbolArgs == {<<"foo", "101">>, <<"foo", "111">>, <<"bar", "101">>}
\* (max_memory, coherence_threshold) arguments of Agent::new: capacity 0
\* included; thresholds 0.1 (the test's), exactly 1.0, and a value above 1.0,
\* which the constructor does not reject
AgentArgs == {<<0, 10>>, <<1, 10>>, <<2, 100>>, <<3, 10>>, <<2, 150>>}
\* (trace.stability, eta) arguments of a direct MemoryField::admit call:
\* equal, below, above
AdmitArgs == {<<10, 10>>, <<10, 50>>, <<100, 50>>}
\* delta arguments of reinforce_symbol: negative, overshooting
Deltas == {-50, 200}
\* rate arguments of decay_memory / decay_all: the parameter is an unvalidated
\* f64, so a negative rate is an input the program accepts
Rates == {50, -50}

\* rate arguments of Substrate::decay within [0, 1]: both ends, the tick's
\* 0.05, a half, and 0.99
SubstrateRates == {0, 5, 50, 99, 100}
\* window arguments of the detectors: usize, so 0 is an input
Windows == {0, 1, 2}

Max(a, b) == IF a >= b THEN a ELSE b
Min(a, b) == IF a <= b THEN a ELSE b
\* f64::clamp(lo, hi) for lo <= hi
Clamp(x, lo, hi) == Max(lo, Min(x, hi))

----------------------------------------------------------------------------
(* substrate.rs: Pattern;  symbol.rs: Symbol, Meaning.                     *)

\* Pattern::new: a value-compared wrapper around the string
Pattern(s) == [p |-> s]

\* Symbol::new
Symbol(token, pattern) == [token |-> token, pattern |-> pattern]
Symbols == {Symbol(x[1], Pattern(x[2])) : x \in SymbolArgs}

\* mutate marking the pattern instead of the token
mutate_pattern(symbol) == Symbol(symbol.token, [p |-> symbol.pattern.p \o "*"])

\* Symbol::mutate: the token with '*' appended, the same pattern
mutate(symbol) == Symbol(symbol.token \o "*", symbol.pattern)

\* Meaning::from_symbol
from_symbol(symbol, tau) ==
    [sign |-> symbol,
     tau |-> tau,
     description |-> "Interpretation of '" \o symbol.token \o "' at τ=" \o ToString(tau)]

----------------------------------------------------------------------------
(* agents.rs: MemoryTrace.                                                 *)

MemoryTrace(symbol, tau_index, stability, interpretants) ==
    [symbol |-> symbol, tau_index |-> tau_index,
     stability |-> stability, interpretants |-> interpretants]

\* MemoryTrace::reinforce
reinforce(t, delta) == [t EXCEPT !.stability = Clamp(t.stability + delta, 0, One)]

\* MemoryTrace::decay: only the lower end is clamped
trace_decay(t, rate) == [t EXCEPT !.stability = Max(t.stability - rate, 0)]

----------------------------------------------------------------------------
(* agents.rs: MemoryField = [traces: VecDeque, max_traces].                *)

\* VecDeque::pop_front, keeping the queue only: a no-op on an empty queue
pop_front(q) == IF q = <<>> THEN q ELSE Tail(q)

\* admit with the gate written `>` instead of `>=`
admit_strict_gate(field, trace, eta) ==
    IF trace.stability > eta
    THEN LET kept == IF Len(field.traces) >= field.max_traces
                     THEN pop_front(field.traces)
                     ELSE field.traces
         IN [field EXCEPT !.traces = Append(kept, trace)]
    ELSE field

\* MemoryField::admit
admit(field, trace, eta) ==
    IF trace.stability >= eta
    THEN LET kept == IF Len(field.traces) >= field.max_traces
                     THEN pop_front(field.traces)
                     ELSE field.traces
         IN [field EXCEPT !.traces = Append(kept, trace)]
    ELSE field

\* MemoryField::reinforce_symbol
reinforce_symbol(field, symbol, delta) ==
    [field EXCEPT !.traces =
        [i \in DOMAIN field.traces |->
            IF field.traces[i].symbol = symbol
            THEN reinforce(field.traces[i], delta)
            ELSE field.traces[i]]]

\* the closure of decay_all's retain
StabilityPositive(t) == t.stability > 0

\* decay_all pruning on the stabilities before they are lowered
decay_all_retain_first(field, rate) ==
    LET kept == SelectSeq(field.traces, StabilityPositive)
    IN [field EXCEPT !.traces = [i \in DOMAIN kept |-> trace_decay(kept[i], rate)]]

\* MemoryField::decay_all; VecDeque::retain keeps the elements satisfying the
\* closure, in their order (SelectSeq)
decay_all(field, rate) ==
    LET decayed == [i \in DOMAIN field.traces |-> trace_decay(field.traces[i], rate)]
    IN [field EXCEPT !.traces = SelectSeq(decayed, StabilityPositive)]

\* the index of the first trace whose symbol equals `symbol`, 0 if none
\* (traces.iter().find / iter_mut().find)
find_index(traces, symbol) ==
    LET hits == {i \in DOMAIN traces : traces[i].symbol = symbol}
    IN IF hits = {} THEN 0 ELSE CHOOSE i \in hits : \A j \in hits : i <= j

\* MemoryField::find
find(field, symbol) ==
    LET i == find_index(field.traces, symbol)
    IN IF i = 0 THEN None ELSE Some(field.traces[i])

----------------------------------------------------------------------------
(* agents.rs: Agent.                                                       *)

\* Agent::new
AgentNew(id, max_memory, coherence_threshold) ==
    [id |-> id,
     symbol_table |-> <<>>,
     memory |-> [traces |-> <<>>, max_traces |-> max_memory],
     coherence_threshold |-> coherence_threshold]

\* an insert that keeps the binding a token already has
table_insert_keep_first(table, token, pattern) ==
    [t \in (DOMAIN table) \cup {token} |->
        IF t \in DOMAIN table THEN table[t] ELSE pattern]

\* HashMap::insert on the symbol table (a function from the bound tokens)
table_insert(table, token, pattern) ==
    [t \in (DOMAIN table) \cup {token} |-> IF t = token THEN pattern ELSE table[t]]

\* express_symbol binding the token only when the trace is admitted
express_symbol_gated(a, token, pattern, tau) ==
    LET symbol == Symbol(token, pattern)
        trace == MemoryTrace(symbol, tau, One, <<>>)
    IN [self |-> IF One >= a.coherence_threshold
                 THEN [a EXCEPT !.symbol_table = table_insert(a.symbol_table, token, pattern),
                                !.memory = admit(a.memory, trace, a.coherence_threshold)]
                 ELSE a,
        ret |-> symbol]

\* Agent::express_symbol
express_symbol(a, token, pattern, tau) ==
    LET symbol == Symbol(token, pattern)
        trace == MemoryTrace(symbol, tau, One, <<>>)
    IN [self |-> [a EXCEPT !.symbol_table = table_insert(a.symbol_table, token, pattern),
                           !.memory = admit(a.memory, trace, a.coherence_threshold)],
        ret |-> symbol]

\* interpret_symbol accepting any bound token, whatever pattern it is bound to
interpret_symbol_any_binding(a, symbol, tau) ==
    IF symbol.token \in DOMAIN a.symbol_table
    THEN LET reinforced == reinforce_symbol(a.memory, symbol, InterpretDelta)
             meaning == from_symbol(symbol, tau)
             i == find_index(reinforced.traces, symbol)
             traces == IF i = 0 THEN reinforced.traces
                       ELSE [reinforced.traces EXCEPT ![i].interpretants =
                                Append(@, meaning)]
         IN [self |-> [a EXCEPT !.memory = [reinforced EXCEPT !.traces = traces]],
             ret |-> Some(meaning)]
    ELSE [self |-> a, ret |-> None]

\* interpret_symbol pushing the meaning onto every matching trace
interpret_symbol_append_all(a, symbol, tau) ==
    IF symbol.token \in DOMAIN a.symbol_table
       /\ a.symbol_table[symbol.token] = symbol.pattern
    THEN LET reinforced == reinforce_symbol(a.memory, symbol, InterpretDelta)
             meaning == from_symbol(symbol, tau)
             traces == [i \in DOMAIN reinforced.traces |->
                           IF reinforced.traces[i].symbol = symbol
                           THEN [reinforced.traces[i] EXCEPT !.interpretants =
                                    Append(@, meaning)]
                           ELSE reinforced.traces[i]]
         IN [self |-> [a EXCEPT !.memory = [reinforced EXCEPT !.traces = traces]],
             ret |-> Some(meaning)]
    ELSE [self |-> a, ret |-> None]

\* interpret_symbol putting the new meaning in front of the earlier ones
interpret_symbol_newest_first(a, symbol, tau) ==
    IF symbol.token \in DOMAIN a.symbol_table
       /\ a.symbol_table[symbol.token] = symbol.pattern
    THEN LET reinforced == reinforce_symbol(a.memory, symbol, InterpretDelta)
             meaning == from_symbol(symbol, tau)
             i == find_index(reinforced.traces, symbol)
             traces == IF i = 0 THEN reinforced.traces
                       ELSE [reinforced.traces EXCEPT ![i].interpretants =
                                <<meaning>> \o @]
         IN [self |-> [a EXCEPT !.memory = [reinforced EXCEPT !.traces = traces]],
             ret |-> Some(meaning)]
    ELSE [self |-> a, ret |-> None]

\* interpret_symbol storing a trace for a symbol that has none in memory
interpret_symbol_stores_missing(a, symbol, tau) ==
    IF symbol.token \in DOMAIN a.symbol_table
       /\ a.symbol_table[symbol.token] = symbol.pattern
    THEN LET reinforced == reinforce_symbol(a.memory, symbol, InterpretDelta)
             meaning == from_symbol(symbol, tau)
             i == find_index(reinforced.traces, symbol)
             traces == IF i = 0
                       THEN Append(reinforced.traces,
                                   MemoryTrace(symbol, tau, InterpretDelta, <<meaning>>))
                       ELSE [reinforced.traces EXCEPT ![i].interpretants =
                                Append(@, meaning)]
         IN [self |-> [a EXCEPT !.memory = [reinforced EXCEPT !.traces = traces]],
             ret |-> Some(meaning)]
    ELSE [self |-> a, ret |-> None]

\* Agent::interpret_symbol
interpret_symbol(a, symbol, tau) ==
    IF symbol.token \in DOMAIN a.symbol_table
       /\ a.symbol_table[symbol.token] = symbol.pattern
    THEN LET reinforced == reinforce_symbol(a.memory, symbol, InterpretDelta)
             meaning == from_symbol(symbol, tau)
             i == find_index(reinforced.traces, symbol)
             traces == IF i = 0 THEN reinforced.traces
                       ELSE [reinforced.traces EXCEPT ![i].interpretants =
                                Append(@, meaning)]
         IN [self |-> [a EXCEPT !.memory = [reinforced EXCEPT !.traces = traces]],
             ret |-> Some(meaning)]
    ELSE [self |-> a, ret |-> None]

\* Agent::mutate_symbol
mutate_symbol(a, symbol) == mutate(symbol)

\* Agent::decay_memory
decay_memory(a, rate) == [a EXCEPT !.memory = decay_all(a.memory, rate)]

----------------------------------------------------------------------------
(* symmetry.rs: the detectors.  They index and unwrap, so a call either    *)
(* returns a bool or panics; a panic unwinds the calling thread.           *)

\* the call returned v
Returned(v) == [panicked |-> FALSE, value |-> v]
\* the call panicked (index out of bounds, unwrap on None)
Panicked == [panicked |-> TRUE]

\* &meanings[meanings.len() - window..], for window <= meanings.len()
LastWindow(meanings, window) ==
    SubSeq(meanings, Len(meanings) - window + 1, Len(meanings))

\* the for loop of detect_symmetry over the traces not yet visited
RECURSIVE symmetry_loop(_, _)
symmetry_loop(traces, window) ==
    IF traces = <<>> THEN Returned(TRUE)
    ELSE LET meanings == Head(traces).interpretants
         IN IF Len(meanings) < window + 1 THEN Returned(FALSE)
            ELSE LET lastw == LastWindow(meanings, window)
                 IN IF lastw = <<>> THEN Panicked     \* last[0] of an empty slice
                    ELSE IF \E i \in DOMAIN lastw :
                                lastw[i].description # lastw[1].description
                         THEN Returned(FALSE)
                         ELSE symmetry_loop(Tail(traces), window)

\* symmetry::detect_symmetry
detect_symmetry(a, window) == symmetry_loop(a.memory.traces, window)

\* the for loop of detect_differentiation over the traces not yet visited
RECURSIVE differentiation_loop(_, _)
differentiation_loop(traces, window) ==
    IF traces = <<>> THEN Returned(FALSE)
    ELSE LET meanings == Head(traces).interpretants
         IN IF Len(meanings) < window + 1
            THEN differentiation_loop(Tail(traces), window)
            ELSE LET lastw == LastWindow(meanings, window)
                 IN IF lastw = <<>> THEN Panicked     \* iter.next().unwrap() on None
                    ELSE IF \E i \in 1..(Len(lastw) - 1) :
                                lastw[i + 1].description # lastw[i].description
                         THEN Returned(TRUE)
                         ELSE differentiation_loop(Tail(traces), window)

\* symmetry::detect_differentiation
detect_differentiation(a, window) == differentiation_loop(a.memory.traces, window)

\* symmetry::detect_attractor
detect_attractor(a, window) == detect_symmetry(a, window)

----------------------------------------------------------------------------
(* substrate.rs: Substrate = [activations: HashMap<Pattern, f64>].         *)

\* Substrate::default
SubstrateDefault == [activations |-> <<>>]

\* project storing 1.0 instead of adding it
substrate_project_store(sub, symbol) ==
    [sub EXCEPT !.activations =
        [q \in (DOMAIN sub.activations) \cup {symbol.pattern} |->
            IF q = symbol.pattern THEN One ELSE sub.activations[q]]]

\* Substrate::project
substrate_project(sub, symbol) ==
    LET act == sub.activations
        p == symbol.pattern
    IN [sub EXCEPT !.activations =
           [q \in (DOMAIN act) \cup {p} |->
               IF q = p THEN (IF p \in DOMAIN act THEN act[p] ELSE 0) + One
               ELSE act[q]]]

\* decay pruning on the values before the multiplication
substrate_decay_prune_first(sub, rate) ==
    LET act == sub.activations
        kept == {q \in DOMAIN act : act[q] > PruneThreshold}
    IN [sub EXCEPT !.activations =
           [q \in kept |-> Max((act[q] * (One - rate)) \div One, 0)]]

\* decay without the retain: faded entries stay in the map
substrate_decay_no_retain(sub, rate) ==
    LET act == sub.activations
    IN [sub EXCEPT !.activations =
           [q \in DOMAIN act |-> Max((act[q] * (One - rate)) \div One, 0)]]

\* Substrate::decay: v * (1 - rate), floored at 0, then retain v > 0.01.
\* The product is truncated to hundredths.
substrate_decay(sub, rate) ==
    LET act == sub.activations
        decayed == [q \in DOMAIN act |-> Max((act[q] * (One - rate)) \div One, 0)]
        kept == {q \in DOMAIN act : decayed[q] > PruneThreshold}
    IN [sub EXCEPT !.activations = [q \in kept |-> decayed[q]]]

\* Agent::project_symbol: delegates to the substrate, the agent is only read
project_symbol(a, symbol, sub) == substrate_project(sub, symbol)

----------------------------------------------------------------------------
(* recursions.rs: RecursionLevel, CategoryObject.                          *)

Levels == {"Void", "Particle", "Atom", "Molecule", "Cell"}

\* `level as u8`: the discriminant of the enum variant
Ordinal(level) ==
    CASE level = "Void" -> 0
      [] level = "Particle" -> 1
      [] level = "Atom" -> 2
      [] level = "Molecule" -> 3
      [] level = "Cell" -> 4

\* CategoryObject::new
CategoryObjectNew(level, id) ==
    [level |-> level, id |-> id, substrate |-> SubstrateDefault,
     subobjects |-> <<>>, agents |-> <<>>]

\* promote deriving the id from the old level's ordinal
promote_old_ordinal(obj) ==
    IF obj.level = "Cell" THEN None
    ELSE LET next_level == CASE obj.level = "Void" -> "Particle"
                             [] obj.level = "Particle" -> "Atom"
                             [] obj.level = "Atom" -> "Molecule"
                             [] obj.level = "Molecule" -> "Cell"
         IN Some([level |-> next_level,
                  id |-> ToString(Ordinal(obj.level)) \o "-" \o obj.id,
                  substrate |-> SubstrateDefault,
                  subobjects |-> <<obj>>,
                  agents |-> <<>>])

\* promote wrapping a Cell in a further Cell instead of returning None
promote_cell_again(obj) ==
    LET next_level == CASE obj.level = "Void" -> "Particle"
                        [] obj.level = "Particle" -> "Atom"
                        [] obj.level = "Atom" -> "Molecule"
                        [] obj.level = "Molecule" -> "Cell"
                        [] obj.level = "Cell" -> "Cell"
    IN Some([level |-> next_level,
             id |-> ToString(Ordinal(next_level)) \o "-" \o obj.id,
             substrate |-> SubstrateDefault,
             subobjects |-> <<obj>>,
             agents |-> <<>>])

\* promote handing a Cell back to the caller instead of dropping it
promote_cell_handed_back(obj) ==
    IF obj.level = "Cell" THEN Some(obj)
    ELSE LET next_level == CASE obj.level = "Void" -> "Particle"
                             [] obj.level = "Particle" -> "Atom"
                             [] obj.level = "Atom" -> "Molecule"
                             [] obj.level = "Molecule" -> "Cell"
         IN Some([level |-> next_level,
                  id |-> ToString(Ordinal(next_level)) \o "-" \o obj.id,
                  substrate |-> SubstrateDefault,
                  subobjects |-> <<obj>>,
                  agents |-> <<>>])

\* CategoryObject::promote (consumes obj)
promote(obj) ==
    IF obj.level = "Cell" THEN None
    ELSE LET next_level == CASE obj.level = "Void" -> "Particle"
                             [] obj.level = "Particle" -> "Atom"
                             [] obj.level = "Atom" -> "Molecule"
                             [] obj.level = "Molecule" -> "Cell"
         IN Some([level |-> next_level,
                  id |-> ToString(Ordinal(next_level)) \o "-" \o obj.id,
                  substrate |-> SubstrateDefault,
                  subobjects |-> <<obj>>,
                  agents |-> <<>>])

\* tick_recursive decaying the called node only, not its subobjects
tick_recursive_shallow(obj) ==
    [obj EXCEPT !.agents = [i \in DOMAIN obj.agents |->
                               decay_memory(obj.agents[i], TickRate)],
                !.substrate = substrate_decay(obj.substrate, TickRate)]

\* CategoryObject::tick_recursive.  The two par_iter_mut().for_each calls hand
\* each closure one element exclusively and join before returning, so the
\* result is the element-wise map.
RECURSIVE tick_recursive(_)
tick_recursive(obj) ==
    [obj EXCEPT !.subobjects = [i \in DOMAIN obj.subobjects |->
                                   tick_recursive(obj.subobjects[i])],
                !.agents = [i \in DOMAIN obj.agents |->
                               decay_memory(obj.agents[i], TickRate)],
                !.substrate = substrate_decay(obj.substrate, TickRate)]

\* format!("mutation:{}", message)
MutationToken(message) == "mutation:" \o message
\* crate::substrate::Pattern::new("111")
MutationPattern == Pattern("111")

\* propagate_mutation reaching the called node's own agents only
propagate_mutation_shallow(obj, message) ==
    [obj EXCEPT !.agents = [i \in DOMAIN obj.agents |->
            express_symbol(obj.agents[i], MutationToken(message),
                           MutationPattern, MutationTau).self]]

\* CategoryObject::propagate_mutation
RECURSIVE propagate_mutation(_, _)
propagate_mutation(obj, message) ==
    [obj EXCEPT !.agents = [i \in DOMAIN obj.agents |->
                    express_symbol(obj.agents[i], MutationToken(message),
                                   MutationPattern, MutationTau).self],
                !.subobjects = [i \in DOMAIN obj.subobjects |->
                    propagate_mutation(obj.subobjects[i], message)]]

\* Iterator::sum over a sequence of numbers
RECURSIVE sum(_)
sum(xs) == IF xs = <<>> THEN 0 ELSE Head(xs) + sum(Tail(xs))

\* the inner closure of aggregate_stability: one agent's trace stabilities, summed
agent_stability(a) ==
    sum([j \in DOMAIN a.memory.traces |-> a.memory.traces[j].stability])

\* aggregate_stability counting the agents of leaf nodes only
RECURSIVE aggregate_stability_leaves(_)
aggregate_stability_leaves(obj) ==
    IF obj.subobjects = <<>>
    THEN sum([i \in DOMAIN obj.agents |-> agent_stability(obj.agents[i])])
    ELSE sum([i \in DOMAIN obj.subobjects |->
                 aggregate_stability_leaves(obj.subobjects[i])])

\* CategoryObject::aggregate_stability
RECURSIVE aggregate_stability(_)
aggregate_stability(obj) ==
    LET sub_sum == sum([i \in DOMAIN obj.subobjects |->
                           aggregate_stability(obj.subobjects[i])])
        agent_sum == sum([i \in DOMAIN obj.agents |-> agent_stability(obj.agents[i])])
    IN sub_sum + agent_sum

\* a reduction that loses the first item of every right-hand part
RECURSIVE par_sum_lossy(_)
par_sum_lossy(xs) ==
    {sum(xs)} \cup
    UNION {{l + r : l \in par_sum_lossy(SubSeq(xs, 1, k)),
                    r \in par_sum_lossy(SubSeq(xs, k + 2, Len(xs)))} :
              k \in 1..(Len(xs) - 1)}

\* ParallelIterator::sum over a sequence of numbers: the set of the values
\* the reduction can return.  The pool either folds a part left to right or
\* splits it in two, reduces each half on its own and adds the two partial
\* sums; where it splits is its own choice.
RECURSIVE par_sum(_)
par_sum(xs) ==
    {sum(xs)} \cup
    UNION {{l + r : l \in par_sum(SubSeq(xs, 1, k)),
                    r \in par_sum(SubSeq(xs, k + 1, Len(xs)))} :
              k \in 1..(Len(xs) - 1)}

\* the sequences that take their i-th item from the i-th set of `sets`
RECURSIVE Choices(_)
Choices(sets) ==
    IF sets = <<>> THEN {<<>>}
    ELSE {<<x>> \o rest : x \in Head(sets), rest \in Choices(Tail(sets))}

\* CategoryObject::aggregate_stability on the thread pool: the set of the
\* values the call can return, over the pool's choices in both par_iter sums
\* of every node
RECURSIVE aggregate_stability_par(_)
aggregate_stability_par(obj) ==
    LET sub_sums == UNION {par_sum(cs) :
                              cs \in Choices([i \in DOMAIN obj.subobjects |->
                                  aggregate_stability_par(obj.subobjects[i])])}
        agent_sums == par_sum([i \in DOMAIN obj.agents |->
                                  agent_stability(obj.agents[i])])
    IN {s + a : s \in sub_sums, a \in agent_sums}

\* format!("{:x}", n): lowercase hexadecimal, no prefix
HexDigit(d) ==
    <<"0", "1", "2", "3", "4", "5", "6", "7",
      "8", "9", "a", "b", "c", "d", "e", "f">>[d + 1]

RECURSIVE LowerHex(_)
LowerHex(n) ==
    IF n < 16 THEN HexDigit(n) ELSE LowerHex(n \div 16) \o HexDigit(n % 16)

\* format!("{:?}", x) of a non-negative f64 held in hundredths: the shortest
\* decimal that reads back, with at least one fractional digit
DebugF64(v) ==
    LET frac == v % One
    IN ToString(v \div One) \o "." \o
       (IF frac % 10 = 0 THEN ToString(frac \div 10)
        ELSE IF frac < 10 THEN "0" \o ToString(frac)
        ELSE ToString(frac))

\* format!("{:?}", s) of a String without quotes or backslashes in it (ids,
\* formulas, shell configurations, bonds and summaries built from such ids)
DebugStr(s) == "\"" \o s \o "\""

\* the items of a Vec's Debug output, joined by ", "
RECURSIVE CommaJoin(_)
CommaJoin(strs) ==
    IF strs = <<>> THEN ""
    ELSE IF Len(strs) = 1 THEN strs[1]
    ELSE strs[1] \o ", " \o CommaJoin(Tail(strs))

\* format!("{:?}", v) of a Vec, from the Debug outputs of its items
DebugVec(strs) == "[" \o CommaJoin(strs) \o "]"

\* #[derive(Debug)] of ParticleInterpretation
DebugParticle(p) ==
    "ParticleInterpretation { id: " \o DebugStr(p.id)
        \o ", quantum_state: " \o DebugStr(p.quantum_state)
        \o ", energy: " \o DebugF64(p.energy) \o " }"

\* #[derive(Debug)] of AtomInterpretation
DebugAtom(a) ==
    "AtomInterpretation { id: " \o DebugStr(a.id)
        \o ", atomic_number: " \o ToString(a.atomic_number)
        \o ", shell_config: " \o DebugStr(a.shell_config)
        \o ", constituent_particles: "
        \o DebugVec([i \in DOMAIN a.constituent_particles |->
                        DebugParticle(a.constituent_particles[i])]) \o " }"

\* #[derive(Debug)] of MoleculeInterpretation
DebugMolecule(m) ==
    "MoleculeInterpretation { id: " \o DebugStr(m.id)
        \o ", formula: " \o DebugStr(m.formula)
        \o ", bonds: " \o DebugVec([i \in DOMAIN m.bonds |-> DebugStr(m.bonds[i])])
        \o ", constituent_atoms: "
        \o DebugVec([i \in DOMAIN m.constituent_atoms |->
                        DebugAtom(m.constituent_atoms[i])]) \o " }"

\* #[derive(Debug)] of CellInterpretation.  The contributing meanings are
\* themselves Debug outputs and contain quotes, which Debug escapes; the
\* escaping is not modelled, and no tree of the model puts a Cell with
\* children under another Cell.
DebugCell(c) ==
    "CellInterpretation { id: " \o DebugStr(c.id)
        \o ", summary: " \o DebugStr(c.summary)
        \o ", emergent_properties: "
        \o DebugVec([i \in DOMAIN c.emergent_properties |->
                        DebugStr(c.emergent_properties[i])])
        \o ", contributing_meanings: "
        \o DebugVec([i \in DOMAIN c.contributing_meanings |->
                        DebugStr(c.contributing_meanings[i])]) \o " }"

\* interpretations.rs: enum Interpretation, a variant tag and its payload
Interpretation(variant, value) == [variant |-> variant, value |-> value]

\* #[derive(Debug)] of Interpretation
DebugInterpretation(interp) ==
    interp.variant \o "(" \o
        (CASE interp.variant = "Particle" -> DebugParticle(interp.value)
           [] interp.variant = "Atom" -> DebugAtom(interp.value)
           [] interp.variant = "Molecule" -> DebugMolecule(interp.value)
           [] interp.variant = "Cell" -> DebugCell(interp.value)) \o ")"

\* activations.values().sum(): the values of the map in some order, summed
RECURSIVE values_sum(_)
values_sum(act) ==
    IF DOMAIN act = {} THEN 0
    ELSE LET q == CHOOSE q \in DOMAIN act : TRUE
         IN act[q] + values_sum([r \in (DOMAIN act) \ {q} |-> act[r]])

\* interpret_particle answering from the substrate as it was at construction
interpret_particle_at_construction(obj) ==
    [id |-> obj.id,
     quantum_state |-> "q" \o LowerHex(Cardinality(DOMAIN SubstrateDefault.activations)),
     energy |-> 0]

\* CategoryObject::interpret_particle
interpret_particle(obj) ==
    [id |-> obj.id,
     quantum_state |-> "q" \o LowerHex(Cardinality(DOMAIN obj.substrate.activations)),
     energy |-> values_sum(obj.substrate.activations)]

RECURSIVE interpret(_)

IsParticleLevel(s) == s.level = "Particle"
IsAtomLevel(s) == s.level = "Atom"
IsSomeParticle(o) == o # None /\ o[1].variant = "Particle"
IsSomeAtom(o) == o # None /\ o[1].variant = "Atom"
IsSome(o) == o # None

\* interpret_atom gathering the particles of the children's children as well
interpret_atom_two_deep(obj) ==
    LET level_particles == SelectSeq(obj.subobjects, IsParticleLevel)
        below == [i \in DOMAIN obj.subobjects |->
                     SelectSeq(obj.subobjects[i].subobjects, IsParticleLevel)]
        RECURSIVE Flatten(_)
        Flatten(seqs) == IF seqs = <<>> THEN <<>> ELSE Head(seqs) \o Flatten(Tail(seqs))
        gathered == level_particles \o Flatten(below)
        constituent_particles == [i \in DOMAIN gathered |-> interpret_particle(gathered[i])]
    IN [id |-> obj.id,
        atomic_number |-> Len(constituent_particles),
        shell_config |-> ToString(Len(constituent_particles)) \o "s2",
        constituent_particles |-> constituent_particles]

\* CategoryObject::interpret_atom
interpret_atom(obj) ==
    LET level_particles == SelectSeq(obj.subobjects, IsParticleLevel)
        interps == SelectSeq([i \in DOMAIN level_particles |->
                                 interpret(level_particles[i])], IsSomeParticle)
        constituent_particles == [i \in DOMAIN interps |-> interps[i][1].value]
    IN [id |-> obj.id,
        atomic_number |-> Len(constituent_particles),
        shell_config |-> ToString(Len(constituent_particles)) \o "s2",
        constituent_particles |-> constituent_particles]

\* interpret_molecule closing the chain: a last bond from the last atom back
\* to the first
interpret_molecule_ring(obj) ==
    LET level_atoms == SelectSeq(obj.subobjects, IsAtomLevel)
        interps == SelectSeq([i \in DOMAIN level_atoms |->
                                 interpret(level_atoms[i])], IsSomeAtom)
        constituent_atoms == [i \in DOMAIN interps |-> interps[i][1].value]
        n == Len(constituent_atoms)
        bonds == IF n > 1
                 THEN [i \in 1..n |->
                          constituent_atoms[i].id \o "-"
                              \o constituent_atoms[(i % n) + 1].id]
                 ELSE <<>>
    IN [id |-> obj.id,
        formula |-> "Molecule" \o obj.id \o ToString(n),
        bonds |-> bonds,
        constituent_atoms |-> constituent_atoms]

\* CategoryObject::interpret_molecule
interpret_molecule(obj) ==
    LET level_atoms == SelectSeq(obj.subobjects, IsAtomLevel)
        interps == SelectSeq([i \in DOMAIN level_atoms |->
                                 interpret(level_atoms[i])], IsSomeAtom)
        constituent_atoms == [i \in DOMAIN interps |-> interps[i][1].value]
        bonds == IF Len(constituent_atoms) > 1
                 THEN [i \in 1..(Len(constituent_atoms) - 1) |->
                          constituent_atoms[i].id \o "-" \o constituent_atoms[i + 1].id]
                 ELSE <<>>
    IN [id |-> obj.id,
        formula |-> "Molecule" \o obj.id \o ToString(Len(constituent_atoms)),
        bonds |-> bonds,
        constituent_atoms |-> constituent_atoms]

\* interpret_cell with an entry for every child, a Void child's reading "None"
interpret_cell_every_child(obj) ==
    LET interps == [i \in DOMAIN obj.subobjects |-> interpret(obj.subobjects[i])]
        contributing_meanings == [i \in DOMAIN interps |->
                                     IF interps[i] = None THEN "None"
                                     ELSE DebugInterpretation(interps[i][1])]
    IN [id |-> obj.id,
        summary |-> "Cell " \o obj.id \o " integrates "
                        \o ToString(Len(contributing_meanings)) \o " sub-meanings",
        emergent_properties |-> <<"homeostasis">>,
        contributing_meanings |-> contributing_meanings]

\* CategoryObject::interpret_cell
interpret_cell(obj) ==
    LET interps == SelectSeq([i \in DOMAIN obj.subobjects |->
                                 interpret(obj.subobjects[i])], IsSome)
        contributing_meanings == [i \in DOMAIN interps |->
                                     DebugInterpretation(interps[i][1])]
    IN [id |-> obj.id,
        summary |-> "Cell " \o obj.id \o " integrates "
                        \o ToString(Len(contributing_meanings)) \o " sub-meanings",
        emergent_properties |-> <<"homeostasis">>,
        contributing_meanings |-> contributing_meanings]

\* interpret reading a Void node as a particle
interpret_void_as_particle(obj) ==
    CASE obj.level = "Atom" -> Some(Interpretation("Atom", interpret_atom(obj)))
      [] obj.level = "Molecule" -> Some(Interpretation("Molecule", interpret_molecule(obj)))
      [] obj.level = "Cell" -> Some(Interpretation("Cell", interpret_cell(obj)))
      [] OTHER -> Some(Interpretation("Particle", interpret_particle(obj)))

\* CategoryObject::interpret
interpret(obj) ==
    CASE obj.level = "Particle" -> Some(Interpretation("Particle", interpret_particle(obj)))
      [] obj.level = "Atom" -> Some(Interpretation("Atom", interpret_atom(obj)))
      [] obj.level = "Molecule" -> Some(Interpretation("Molecule", interpret_molecule(obj)))
      [] obj.level = "Cell" -> Some(Interpretation("Cell", interpret_cell(obj)))
      [] obj.level = "Void" -> None

\* The paths (sequences of subobject indices) of the nodes of a tree
RECURSIVE Paths(_)
Paths(obj) ==
    {<<>>} \cup UNION {{<<i>> \o p : p \in Paths(obj.subobjects[i])} :
                          i \in DOMAIN obj.subobjects}

\* obj.subobjects[path[1]].subobjects[path[2]]...
RECURSIVE NodeAt(_, _)
NodeAt(obj, path) ==
    IF path = <<>> THEN obj ELSE NodeAt(obj.subobjects[Head(path)], Tail(path))

\* the tree after obj.subobjects[..]...agents[i].memory.admit(trace, eta)
RECURSIVE AdmitInto(_, _, _, _, _)
AdmitInto(obj, path, i, trace, eta) ==
    IF path = <<>>
    THEN [obj EXCEPT !.agents[i].memory = admit(obj.agents[i].memory, trace, eta)]
    ELSE [obj EXCEPT !.subobjects[Head(path)] =
             AdmitInto(obj.subobjects[Head(path)], Tail(path), i, trace, eta)]

\* the tree after obj.subobjects[..]...substrate.project(&symbol)
RECURSIVE ProjectInto(_, _, _)
ProjectInto(obj, path, symbol) ==
    IF path = <<>>
    THEN [obj EXCEPT !.substrate = substrate_project(obj.substrate, symbol)]
    ELSE [obj EXCEPT !.subobjects[Head(path)] =
             ProjectInto(obj.subobjects[Head(path)], Tail(path), symbol)]

\* the tree after obj.subobjects[..]...substrate.decay(rate)
RECURSIVE DecayInto(_, _, _)
DecayInto(obj, path, rate) ==
    IF path = <<>>
    THEN [obj EXCEPT !.substrate = substrate_decay(obj.substrate, rate)]
    ELSE [obj EXCEPT !.subobjects[Head(path)] =
             DecayInto(obj.subobjects[Head(path)], Tail(path), rate)]

\* the tree after node.agents[i].project_symbol(&symbol, &mut node.substrate)
\* on the node at `path`
RECURSIVE ProjectSymbolInto(_, _, _, _)
ProjectSymbolInto(obj, path, i, symbol) ==
    IF path = <<>>
    THEN [obj EXCEPT !.substrate = project_symbol(obj.agents[i], symbol, obj.substrate)]
    ELSE [obj EXCEPT !.subobjects[Head(path)] =
             ProjectSymbolInto(obj.subobjects[Head(path)], Tail(path), i, symbol)]

----------------------------------------------------------------------------
(* The stand-alone agent and its driver (a test harness, script or REPL    *)
(* calling the public methods and the public `memory` field).              *)

\* a detector panicked: the driver's thread has unwound and calls nothing more
Aborted ==
    /\ last.op \in {"detect_symmetry", "detect_differentiation", "detect_attractor"}
    /\ last.ret.panicked

\* let agent = Agent::new("a", max_memory, coherence_threshold); no tree is in play
Init ==
    /\ \E x \in AgentArgs : agent = AgentNew("a", x[1], x[2])
    /\ root = None
    /\ last = [op |-> "new"]
    /\ steps = 0
    /\ harness = NoHarness
    /\ call = None

\* agent.express_symbol(token, pattern, tau)
ExpressSymbol ==
    \E s \in Symbols, tau \in Taus :
        LET r == express_symbol(agent, s.token, s.pattern, tau)
        IN /\ steps < MaxSteps
           /\ ~Aborted
           /\ agent' = r.self
           /\ last' = [op |-> "express_symbol", token |-> s.token, pattern |-> s.pattern,
                       tau |-> tau, ret |-> r.ret]
           /\ steps' = steps + 1
           /\ UNCHANGED <<root, harness, call>>

\* agent.memory.admit(trace, eta), the trace built by the driver
Admit ==
    \E x \in AdmitArgs :
        LET trace == MemoryTrace(Symbol("foo", Pattern("101")), 0, x[1], <<>>)
        IN /\ steps < MaxSteps
           /\ ~Aborted
           /\ agent' = [agent EXCEPT !.memory = admit(agent.memory, trace, x[2])]
           /\ last' = [op |-> "admit", trace |-> trace, eta |-> x[2]]
           /\ steps' = steps + 1
           /\ UNCHANGED <<root, harness, call>>

\* agent.memory.reinforce_symbol(&symbol, delta)
ReinforceSymbol ==
    \E delta \in Deltas :
        LET symbol == Symbol("foo", Pattern("101"))
        IN /\ steps < MaxSteps
           /\ ~Aborted
           /\ agent' = [agent EXCEPT !.memory =
                           reinforce_symbol(agent.memory, symbol, delta)]
           /\ last' = [op |-> "reinforce_symbol", symbol |-> symbol, delta |-> delta]
           /\ steps' = steps + 1
           /\ UNCHANGED <<root, harness, call>>

\* agent.decay_memory(rate)
DecayMemory ==
    \E rate \in Rates :
        /\ steps < MaxSteps
        /\ ~Aborted
        /\ agent' = decay_memory(agent, rate)
        /\ last' = [op |-> "decay_memory", rate |-> rate]
        /\ steps' = steps + 1
        /\ UNCHANGED <<root, harness, call>>

\* agent.interpret_symbol(&symbol, tau)
InterpretSymbol ==
    \E symbol \in Symbols, tau \in Taus :
        LET r == interpret_symbol(agent, symbol, tau)
        IN /\ steps < MaxSteps
           /\ ~Aborted
           /\ agent' = r.self
           /\ last' = [op |-> "interpret_symbol", symbol |-> symbol, tau |-> tau,
                       ret |-> r.ret]
           /\ steps' = steps + 1
           /\ UNCHANGED <<root, harness, call>>

\* symmetry::detect_symmetry(&agent, window)
DetectSymmetry ==
    \E window \in Windows :
        /\ steps < MaxSteps
        /\ ~Aborted
        /\ last' = [op |-> "detect_symmetry", window |-> window,
                    ret |-> detect_symmetry(agent, window)]
        /\ steps' = steps + 1
        /\ UNCHANGED <<agent, root, harness, call>>

\* symmetry::detect_differentiation(&agent, window)
DetectDifferentiation ==
    \E window \in Windows :
        /\ steps < MaxSteps
        /\ ~Aborted
        /\ last' = [op |-> "detect_differentiation", window |-> window,
                    ret |-> detect_differentiation(agent, window)]
        /\ steps' = steps + 1
        /\ UNCHANGED <<agent, root, harness, call>>

\* agent.mutate_symbol(&symbol), on a symbol of the driver's or on the symbol
\* the previous mutate_symbol returned
MutateSymbol ==
    \E symbol \in Symbols \cup (IF last.op = "mutate_symbol" THEN {last.ret} ELSE {}) :
        /\ steps < MaxSteps
        /\ ~Aborted
        /\ last' = [op |-> "mutate_symbol", symbol |-> symbol,
                    ret |-> mutate_symbol(agent, symbol)]
        /\ steps' = steps + 1
        /\ UNCHANGED <<agent, root, harness, call>>

Next ==
    \/ ExpressSymbol
    \/ Admit
    \/ ReinforceSymbol
    \/ DecayMemory
    \/ InterpretSymbol
    \/ DetectSymmetry
    \/ DetectDifferentiation
    \/ MutateSymbol

Spec == Init /\ [][Next]_vars

----------------------------------------------------------------------------
(* The category-object tree and its driver.  The driver assembles a tree   *)
(* through CategoryObject::new, Agent::new and the public `subobjects` and *)
(* `agents` fields, and then calls the tree operations on its root.        *)

\* obj.agents.push(..) for each agent of the (capacity, threshold) list
WithAgents(obj, args) ==
    [obj EXCEPT !.agents =
        [i \in DOMAIN args |-> AgentNew(obj.id \o ".a" \o ToString(i), args[i][1], args[i][2])]]

\* obj.subobjects.push(Box::new(..)) for each child
WithSubobjects(obj, children) == [obj EXCEPT !.subobjects = children]

\* an Atom with an agent and three leaf children, two of them with agents
WideTree ==
    WithSubobjects(WithAgents(CategoryObjectNew("Atom", "w"), <<(<<2, 10>>)>>),
        <<WithAgents(CategoryObjectNew("Particle", "p1"), <<(<<1, 10>>)>>),
          WithAgents(CategoryObjectNew("Particle", "p2"), <<(<<2, 10>>), (<<2, 150>>)>>),
          CategoryObjectNew("Void", "v")>>)

\* a Molecule over two Atoms, the first over a Particle; agents at two depths
DeepTree ==
    WithSubobjects(CategoryObjectNew("Molecule", "m"),
        <<WithSubobjects(WithAgents(CategoryObjectNew("Atom", "a1"), <<(<<2, 10>>)>>),
              <<WithAgents(CategoryObjectNew("Particle", "p1"), <<(<<1, 10>>)>>)>>),
          CategoryObjectNew("Atom", "a2")>>)

InitialTrees ==
    {CategoryObjectNew(level, "x") : level \in Levels} \cup {WideTree, DeepTree}

\* message arguments of propagate_mutation
Messages == {"m1", "m2"}

InitTree ==
    /\ \E t \in InitialTrees : root = Some(t)
    /\ agent = AgentNew("a", 0, 0)
    /\ last = [op |-> "new"]
    /\ steps = 0
    /\ harness = NoHarness
    /\ call = None

\* let root = root.promote(): the object is moved into the call
Promote ==
    /\ root # None
    /\ steps < MaxSteps
    /\ root' = promote(root[1])
    /\ last' = [op |-> "promote", self |-> root[1]]
    /\ steps' = steps + 1
    /\ UNCHANGED <<agent, harness, call>>

\* root.tick_recursive()
TickRecursive ==
    /\ root # None
    /\ steps < MaxSteps
    /\ root' = Some(tick_recursive(root[1]))
    /\ last' = [op |-> "tick_recursive"]
    /\ steps' = steps + 1
    /\ UNCHANGED <<agent, harness, call>>

\* root.propagate_mutation(message)
PropagateMutation ==
    \E message \in Messages :
        /\ root # None
        /\ steps < MaxSteps
        /\ root' = Some(propagate_mutation(root[1], message))
        /\ last' = [op |-> "propagate_mutation", message |-> message]
        /\ steps' = steps + 1
        /\ UNCHANGED <<agent, harness, call>>

\* root.aggregate_stability()
AggregateStability ==
    /\ root # None
    /\ steps < MaxSteps
    /\ last' = [op |-> "aggregate_stability", ret |-> aggregate_stability(root[1])]
    /\ steps' = steps + 1
    /\ UNCHANGED <<agent, root, harness, call>>

\* root.aggregate_stability(), the two sums of every node reduced by the pool
AggregateStabilityPar ==
    /\ root # None
    /\ steps < MaxSteps
    /\ \E ret \in aggregate_stability_par(root[1]) :
           last' = [op |-> "aggregate_stability_par", ret |-> ret]
    /\ steps' = steps + 1
    /\ UNCHANGED <<agent, root, harness, call>>

\* node.interpret() on the node at `path`
Interpret ==
    /\ root # None
    /\ steps < MaxSteps
    /\ \E path \in Paths(root[1]) :
           last' = [op |-> "interpret", path |-> path,
                    ret |-> interpret(NodeAt(root[1], path))]
    /\ steps' = steps + 1
    /\ UNCHANGED <<agent, root, harness, call>>

\* node.substrate.project(&symbol) on the node at `path`
Project ==
    /\ root # None
    /\ steps < MaxSteps
    /\ \E path \in Paths(root[1]), symbol \in {s \in Symbols : s.token = "foo"} :
           /\ root' = Some(ProjectInto(root[1], path, symbol))
           /\ last' = [op |-> "project", path |-> path, symbol |-> symbol]
    /\ steps' = steps + 1
    /\ UNCHANGED <<agent, harness, call>>

\* node.agents[i].memory.admit(trace, eta) on the node at `path`, with a faint
\* trace (stability 0.05) that the next tick decays to exactly 0
AdmitFaint ==
    /\ root # None
    /\ steps < MaxSteps
    /\ \E path \in Paths(root[1]) : \E i \in DOMAIN NodeAt(root[1], path).agents :
           LET trace == MemoryTrace(Symbol("foo", Pattern("101")), 1, TickRate, <<>>)
           IN /\ root' = Some(AdmitInto(root[1], path, i, trace, 0))
              /\ last' = [op |-> "admit", path |-> path, index |-> i,
                          trace |-> trace, eta |-> 0]
    /\ steps' = steps + 1
    /\ UNCHANGED <<agent, harness, call>>

\* node.agents[i].project_symbol(&symbol, &mut node.substrate) on the node at
\* `path`, with a symbol of the second token
ProjectSymbol ==
    /\ root # None
    /\ steps < MaxSteps
    /\ \E path \in Paths(root[1]) : \E i \in DOMAIN NodeAt(root[1], path).agents :
           \E symbol \in {s \in Symbols : s.token = "bar"} :
               /\ root' = Some(ProjectSymbolInto(root[1], path, i, symbol))
               /\ last' = [op |-> "project_symbol", path |-> path, index |-> i,
                           symbol |-> symbol]
    /\ steps' = steps + 1
    /\ UNCHANGED <<agent, harness, call>>

NextTree ==
    \/ Promote
    \/ AdmitFaint
    \/ TickRecursive
    \/ PropagateMutation
    \/ AggregateStability
    \/ AggregateStabilityPar
    \/ Interpret
    \/ Project
    \/ ProjectSymbol

SpecTree == InitTree /\ [][NextTree]_vars

----------------------------------------------------------------------------
(* One substrate and its driver: the substrate of a single node, projected *)
(* onto and decayed with rates of the driver's choice.                     *)

InitSubstrate ==
    /\ \E level \in {"Particle", "Atom"} : root = Some(CategoryObjectNew(level, "x"))
    /\ agent = AgentNew("a", 0, 0)
    /\ last = [op |-> "new"]
    /\ steps = 0
    /\ harness = NoHarness
    /\ call = None

\* node.substrate.decay(rate) on the node at `path`
DecaySubstrate ==
    /\ root # None
    /\ steps < MaxSteps
    /\ \E path \in Paths(root[1]), rate \in SubstrateRates :
           /\ root' = Some(DecayInto(root[1], path, rate))
           /\ last' = [op |-> "substrate_decay", path |-> path, rate |-> rate]
    /\ steps' = steps + 1
    /\ UNCHANGED <<agent, harness, call>>

NextSubstrate ==
    \/ Project
    \/ DecaySubstrate

SpecSubstrate == InitSubstrate /\ [][NextSubstrate]_vars

----------------------------------------------------------------------------
(* Trees with children of mixed levels, and their driver: interpretation   *)
(* of any node, projection onto any node's substrate, promotion of the     *)
(* root, ticks.                                                            *)

\* an Atom over two Particles, a Void and an Atom that has a Particle of its own
AtomTree ==
    WithSubobjects(CategoryObjectNew("Atom", "r"),
        <<CategoryObjectNew("Particle", "p1"),
          CategoryObjectNew("Void", "v"),
          WithSubobjects(CategoryObjectNew("Atom", "a1"),
                         <<CategoryObjectNew("Particle", "p2")>>),
          CategoryObjectNew("Particle", "p3")>>)

\* a Molecule over three Atoms with a Particle and a Void between them
MoleculeTree ==
    WithSubobjects(CategoryObjectNew("Molecule", "r"),
        <<CategoryObjectNew("Atom", "a1"),
          CategoryObjectNew("Particle", "p1"),
          WithSubobjects(CategoryObjectNew("Atom", "a2"),
                         <<CategoryObjectNew("Particle", "p2")>>),
          CategoryObjectNew("Void", "v"),
          CategoryObjectNew("Atom", "a3")>>)

\* a Cell over one child of every level
CellTree ==
    WithSubobjects(CategoryObjectNew("Cell", "r"),
        <<CategoryObjectNew("Particle", "p1"),
          CategoryObjectNew("Void", "v"),
          CategoryObjectNew("Atom", "a1"),
          CategoryObjectNew("Molecule", "m1"),
          CategoryObjectNew("Cell", "c1")>>)

MixedTrees ==
    {AtomTree, MoleculeTree, CellTree, CategoryObjectNew("Molecule", "x")}

InitMixed ==
    /\ \E t \in MixedTrees : root = Some(t)
    /\ agent = AgentNew("a", 0, 0)
    /\ last = [op |-> "new"]
    /\ steps = 0
    /\ harness = NoHarness
    /\ call = None

NextMixed ==
    \/ Interpret
    \/ Project
    \/ Promote
    \/ TickRecursive

SpecMixed == InitMixed /\ [][NextMixed]_vars

(***************************************************************************)
(* Driver of repeated promotion: an object made by CategoryObject::new at  *)
(* any level is promoted again and again, `harness` counting the calls     *)
(* that returned an object; interpretations, projections and ticks may     *)
(* come in between.                                                        *)
(***************************************************************************)

\* let obj = CategoryObject::new(level, "x")
InitChain ==
    /\ \E level \in Levels :
           /\ root = Some(CategoryObjectNew(level, "x"))
           /\ harness = [pc |-> "chain", level |-> level, promoted |-> 0]
    /\ agent = AgentNew("a", 0, 0)
    /\ last = [op |-> "new"]
    /\ steps = 0
    /\ call = None

\* obj = obj.promote()?: the object is moved into the call, which ends the
\* chain when it returns None
PromoteChain ==
    /\ harness.pc = "chain"
    /\ root # None
    /\ root' = promote(root[1])
    /\ harness' = [harness EXCEPT !.promoted = IF root' # None THEN @ + 1 ELSE @]
    /\ last' = [op |-> "promote"]
    /\ UNCHANGED <<agent, steps, call>>

NextChain ==
    \/ PromoteChain
    \/ Interpret
    \/ Project
    \/ TickRecursive

SpecChain == InitChain /\ [][NextChain]_vars

(***************************************************************************)
(* Driver of a run of ticks: a tree is first loaded by projections,        *)
(* admissions and mutations, and from the first tick on nothing but        *)
(* tick_recursive is called.  `harness` holds the phase and the number of  *)
(* ticks that changed the tree.                                            *)
(***************************************************************************)

InitDecay ==
    /\ \E t \in {WideTree, DeepTree} : root = Some(t)
    /\ agent = AgentNew("a", 0, 0)
    /\ last = [op |-> "new"]
    /\ steps = 0
    /\ harness = [pc |-> "setup", ticks |-> 0]
    /\ call = None

\* the loading calls, made only before the first tick, MaxLoads of them at most
LoadProject == harness.pc = "setup" /\ steps < MaxLoads /\ Project
LoadAdmitFaint == harness.pc = "setup" /\ steps < MaxLoads /\ AdmitFaint
LoadProjectSymbol == harness.pc = "setup" /\ steps < MaxLoads /\ ProjectSymbol
LoadPropagateMutation == harness.pc = "setup" /\ steps < MaxLoads /\ PropagateMutation

\* loop { root.tick_recursive() }
TickRepeated ==
    /\ root # None
    /\ root' = Some(tick_recursive(root[1]))
    /\ harness' = [pc |-> "ticking",
                   ticks |-> IF root' # root THEN harness.ticks + 1 ELSE harness.ticks]
    /\ last' = [op |-> "tick_recursive"]
    /\ UNCHANGED <<agent, steps, call>>

NextDecay ==
    \/ LoadProject
    \/ LoadAdmitFaint
    \/ LoadProjectSymbol
    \/ LoadPropagateMutation
    \/ TickRepeated

\* the loop keeps calling tick_recursive
SpecDecay == InitDecay /\ [][NextDecay]_vars /\ WF_vars(TickRepeated)

-----------------------------------------------------------------------------
(* narrative/ast.rs and narrative/runner.rs: the blocks and actions of a   *)
(* narrative script, and the runner's ScriptContext.  Strings are read     *)
(* character by character as the runner does; `coh` is in hundredths.      *)
(* The runner recurses on the thread's stack: a nest of execute_action     *)
(* calls deeper than StackLimit exhausts it and the process is aborted.    *)

\* the model's stand-in for the stack size: the deepest nest of
\* execute_action calls that still returns
StackLimit == 4

\* the iteration count above which a While block is broken
WhileLimit == 1000

\* enum Block
BlockAtTau(tau, actions) == [block |-> "AtTau", tau |-> tau, actions |-> actions]
BlockRepeat(n, actions) == [block |-> "Repeat", n |-> n, actions |-> actions]
BlockWhile(cond, actions) == [block |-> "While", cond |-> cond, actions |-> actions]
BlockParallel(actions) == [block |-> "Parallel", actions |-> actions]
BlockMacroDef(name, params, body) ==
    [block |-> "MacroDef", name |-> name, params |-> params, body |-> body]

\* enum Action
ActionConditional(cond, subactions) ==
    [action |-> "Conditional", cond |-> cond, subactions |-> subactions]
ActionCreateAgent(name, mem, coh) ==
    [action |-> "CreateAgent", name |-> name, mem |-> mem, coh |-> coh]
ActionMacroCall(name, args) == [action |-> "MacroCall", name |-> name, args |-> args]
ActionVariableAssignment(name, value) ==
    [action |-> "VariableAssignment", name |-> name, value |-> value]
ActionSay(a, token, pattern) ==
    [action |-> "Say", agent |-> a, token |-> token, pattern |-> pattern]
ActionInterpret(a, token) == [action |-> "Interpret", agent |-> a, token |-> token]
ActionProject(a, token) == [action |-> "Project", agent |-> a, token |-> token]
ActionTick(n) == [action |-> "Tick", n |-> n]
ActionAssert(expr) == [action |-> "Assert", expr |-> expr]
ActionComment(text) == [action |-> "Comment", text |-> text]

\* AgentState::default()
AgentStateDefault == [memory |-> <<>>, activation |-> <<>>]

\* ScriptContext::default()
ScriptContextDefault ==
    [vars |-> <<>>, macros |-> <<>>, agents |-> <<>>, tau |-> 0]

\* HashMap::insert
map_insert(map, key, value) ==
    [k \in (DOMAIN map) \cup {key} |-> IF k = key THEN value ELSE map[k]]

\* Vec<String>::contains
vec_contains(vec, item) == \E i \in DOMAIN vec : vec[i] = item

\* the characters char::is_alphanumeric accepts, among those the scripts use
Alphanumeric ==
    LET chars == "abcdefghijklmnopqrstuvwxyzABCDEFGHIJKLMNOPQRSTUVWXYZ0123456789"
    IN {SubSeq(chars, i, i) : i \in 1..Len(chars)}

\* the position after the variable name that starts at i: the inner
\* `while let Some(&n) = chars.peek()` of expand_vars
RECURSIVE name_end(_, _)
name_end(text, i) ==
    IF i > Len(text) THEN i
    ELSE LET n == SubSeq(text, i, i)
         IN IF n \notin Alphanumeric /\ n # "_" THEN i ELSE name_end(text, i + 1)

\* the outer loop of expand_vars from position i on
RECURSIVE expand_from(_, _, _)
expand_from(text, i, ctx) ==
    IF i > Len(text) THEN ""
    ELSE LET c == SubSeq(text, i, i)
         IN IF c = "$"
            THEN LET j == name_end(text, i + 1)
                     name == SubSeq(text, i + 1, j - 1)
                 IN (IF name \in DOMAIN ctx.vars THEN ctx.vars[name] ELSE "$" \o name)
                        \o expand_from(text, j, ctx)
            ELSE c \o expand_from(text, i + 1, ctx)

\* expand_vars
expand_vars(text, ctx) == expand_from(text, 1, ctx)

\* str::split_whitespace from position i on, `word` being the word read so far
RECURSIVE split_from(_, _, _)
split_from(s, i, word) ==
    IF i > Len(s) THEN (IF word = "" THEN <<>> ELSE <<word>>)
    ELSE IF SubSeq(s, i, i) = " "
         THEN (IF word = "" THEN <<>> ELSE <<word>>) \o split_from(s, i + 1, "")
         ELSE split_from(s, i + 1, word \o SubSeq(s, i, i))

split_whitespace(s) == split_from(s, 1, "")

\* str::starts_with
starts_with(s, prefix) ==
    Len(s) >= Len(prefix) /\ SubSeq(s, 1, Len(prefix)) = prefix

\* str::find from position `from` on: the first position of pat, 0 if none
find_from(s, pat, from) ==
    LET hits == {i \in from..(Len(s) - Len(pat) + 1) :
                    SubSeq(s, i, i + Len(pat) - 1) = pat}
    IN IF hits = {} THEN 0 ELSE CHOOSE i \in hits : \A j \in hits : i <= j

\* s.split(pat).nth(1).unwrap(), for an s that holds pat
split_nth1(s, pat) ==
    LET first == find_from(s, pat, 1)
        start == first + Len(pat)
        second == find_from(s, pat, start)
    IN IF second = 0 THEN SubSeq(s, start, Len(s)) ELSE SubSeq(s, start, second - 1)

\* str::trim
RECURSIVE trim(_)
trim(s) ==
    IF s = "" THEN s
    ELSE IF SubSeq(s, 1, 1) = " " THEN trim(SubSeq(s, 2, Len(s)))
    ELSE IF SubSeq(s, Len(s), Len(s)) = " " THEN trim(SubSeq(s, 1, Len(s) - 1))
    ELSE s

\* eval_condition
eval_condition(cond, ctx) ==
    IF cond = "always" THEN TRUE
    ELSE LET tokens == split_whitespace(cond)
         IN IF Len(tokens) = 3 /\ tokens[2] = "knows" /\ tokens[1] \in DOMAIN ctx.agents
            THEN vec_contains(ctx.agents[tokens[1]].memory, tokens[3])
            ELSE IF Len(tokens) = 3 /\ tokens[2] = "memory"
                    /\ starts_with(tokens[3], "contains")
                    /\ tokens[1] \in DOMAIN ctx.agents
            THEN vec_contains(ctx.agents[tokens[1]].memory,
                              trim(split_nth1(cond, "contains")))
            ELSE FALSE

\* ctx.agents.entry(agent).or_default().memory.push(token)
memory_push(ctx, a, token) ==
    LET state == IF a \in DOMAIN ctx.agents THEN ctx.agents[a] ELSE AgentStateDefault
    IN [ctx EXCEPT !.agents =
           map_insert(ctx.agents, a, [state EXCEPT !.memory = Append(@, token)])]

\* for (p, a) in params.iter().zip(args.iter()) { ctx.vars.insert(p, expand_vars(a, ctx)) }
RECURSIVE bind_params(_, _, _)
bind_params(params, args, ctx) ==
    IF params = <<>> \/ args = <<>> THEN ctx
    ELSE bind_params(Tail(params), Tail(args),
             [ctx EXCEPT !.vars = map_insert(ctx.vars, Head(params),
                                             expand_vars(Head(args), ctx))])

\* the outcome of a call: the context it leaves, or the process aborted on
\* an exhausted stack
Ran(ctx) == [ctx |-> ctx, aborted |-> FALSE]
StackExhausted(ctx) == [ctx |-> ctx, aborted |-> TRUE]

RECURSIVE execute_action(_, _, _)
RECURSIVE execute_actions(_, _, _)

\* the MacroCall arm leaving the variable table as the body left it
macro_call_keep_vars(action, ctx, depth) ==
    IF action.name \in DOMAIN ctx.macros
    THEN LET params == ctx.macros[action.name].params
             body == ctx.macros[action.name].body
         IN IF Len(params) # Len(action.args) THEN Ran(ctx)
            ELSE execute_actions(body, bind_params(params, action.args, ctx), depth + 1)
    ELSE Ran(ctx)

\* the MacroCall arm of execute_action
macro_call(action, ctx, depth) ==
    IF action.name \in DOMAIN ctx.macros
    THEN LET params == ctx.macros[action.name].params
             body == ctx.macros[action.name].body
         IN IF Len(params) # Len(action.args) THEN Ran(ctx)
            ELSE LET old_vars == ctx.vars
                     r == execute_actions(body, bind_params(params, action.args, ctx),
                                          depth + 1)
                 IN IF r.aborted THEN r
                    ELSE Ran([r.ctx EXCEPT !.vars = old_vars])
    ELSE Ran(ctx)

\* for action in actions { execute_action(action, ctx) }, each call one
\* frame above the caller's
execute_actions(actions, ctx, depth) ==
    IF actions = <<>> THEN Ran(ctx)
    ELSE LET r == execute_action(Head(actions), ctx, depth)
         IN IF r.aborted THEN r ELSE execute_actions(Tail(actions), r.ctx, depth)

\* execute_action, called at stack depth `depth`
execute_action(action, ctx, depth) ==
    IF depth > StackLimit THEN StackExhausted(ctx)
    ELSE CASE action.action = "Conditional" ->
                  IF eval_condition(action.cond, ctx)
                  THEN execute_actions(action.subactions, ctx, depth + 1)
                  ELSE Ran(ctx)
           [] action.action = "CreateAgent" ->
                  Ran([ctx EXCEPT !.agents =
                          map_insert(ctx.agents, action.name, AgentStateDefault)])
           [] action.action = "VariableAssignment" ->
                  Ran([ctx EXCEPT !.vars =
                          map_insert(ctx.vars, action.name, expand_vars(action.value, ctx))])
           [] action.action = "Say" ->
                  Ran(memory_push(ctx, action.agent, expand_vars(action.token, ctx)))
           [] action.action = "Interpret" ->
                  Ran(memory_push(ctx, action.agent, expand_vars(action.token, ctx)))
           [] action.action = "Project" -> Ran(ctx)
           [] action.action = "Tick" -> Ran([ctx EXCEPT !.tau = ctx.tau + action.n])
           [] action.action = "Assert" -> Ran(ctx)
           [] action.action = "Comment" -> Ran(ctx)
           [] action.action = "MacroCall" -> macro_call(action, ctx, depth)

\* the first pass of execute_script over the blocks not yet visited
RECURSIVE register_macros(_, _)
register_macros(blocks, ctx) ==
    IF blocks = <<>> THEN ctx
    ELSE register_macros(Tail(blocks),
             IF Head(blocks).block = "MacroDef"
             THEN [ctx EXCEPT !.macros =
                      map_insert(ctx.macros, Head(blocks).name,
                                 [params |-> Head(blocks).params,
                                  body |-> Head(blocks).body])]
             ELSE ctx)

(***************************************************************************)
(* Driver of the narrative runner: execute_script on one of a few scripts. *)
(* `harness` holds the caller's ScriptContext and the runner's position:   *)
(* the block b, the action a of its body, the Repeat index i, the While    *)
(* counter `count`, and `ran`, the number of body passes completed in the  *)
(* present block.                                                          *)
(***************************************************************************)

\* a macro with a parameter, calls with right and wrong argument counts and
\* of an unknown macro, nested calls, and While blocks whose condition is
\* always true, false on entry, and true once only
ScriptGreeting ==
    <<BlockMacroDef("greet", <<"who">>,
          <<ActionSay("A", "hello_$who", "101"),
            ActionVariableAssignment("tmp", "$who!"),
            ActionTick(2)>>),
      BlockMacroDef("twice", <<"who", "other">>,
          <<ActionMacroCall("greet", <<"$other">>),
            ActionVariableAssignment("who", "inner"),
            ActionMacroCall("greet", <<"$who">>)>>),
      BlockAtTau(3,
          <<ActionCreateAgent("A", 5, 10),
            ActionVariableAssignment("who", "outer"),
            ActionMacroCall("greet", <<"bob">>),
            ActionMacroCall("greet", <<>>),
            ActionMacroCall("greet", <<"x", "y">>),
            ActionMacroCall("nobody", <<"x">>),
            ActionConditional("A has met bob",
                <<ActionMacroCall("greet", <<"never">>)>>),
            ActionConditional("A knows hello_bob",
                <<ActionMacroCall("greet", <<"$tmp">>)>>),
            ActionConditional("always",
                <<ActionMacroCall("twice", <<"$who", "eve">>)>>),
            ActionAssert("A knows hello_bob"),
            ActionComment("done")>>),
      BlockWhile("always", <<ActionSay("A", "hi", "101")>>),
      BlockWhile("A knows bye", <<ActionTick(1)>>),
      BlockRepeat(2, <<ActionMacroCall("greet", <<"again">>), ActionProject("A", "hi")>>),
      BlockParallel(<<ActionInterpret("B", "$who"), ActionSay("A", "bye", "111")>>),
      BlockWhile("A knows bye", <<ActionTick(1), ActionCreateAgent("A", 5, 10)>>),
      BlockRepeat(0, <<ActionTick(1)>>)>>

\* a While block over nothing but a condition that stays true
ScriptBare ==
    <<BlockWhile("always", <<>>)>>

\* a macro that calls itself, called from a While block
ScriptRecursive ==
    <<BlockAtTau(0, <<ActionCreateAgent("A", 5, 10)>>),
      BlockWhile("always", <<ActionMacroCall("again", <<"a">>)>>),
      BlockMacroDef("again", <<"x">>,
          <<ActionSay("A", "$x", "101"), ActionMacroCall("again", <<"$x">>)>>)>>

Scripts == {ScriptGreeting, ScriptBare, ScriptRecursive}

\* let mut ctx = ScriptContext::default(); the runner has not started
InitRunner ==
    /\ \E blocks \in Scripts :
           harness = [pc |-> "script", blocks |-> blocks, b |-> 0, a |-> 0, i |-> 0,
                      count |-> 0, ran |-> 0, ctx |-> ScriptContextDefault]
    /\ agent = AgentNew("a", 0, 0)
    /\ root = None
    /\ last = [op |-> "new"]
    /\ steps = 0
    /\ call = None

\* the body of the block the runner is in
BodyOf(h) == h.blocks[h.b].actions

\* the harness once the present block is left
NextBlock(h) == [h EXCEPT !.pc = "block", !.b = h.b + 1, !.a = 0, !.i = 0]

\* execute_script: the first pass registers the macros
RegisterMacros ==
    /\ harness.pc = "script"
    /\ harness' = [harness EXCEPT !.pc = "block", !.b = 1,
                                  !.ctx = register_macros(harness.blocks, harness.ctx)]
    /\ last' = [op |-> "register_macros"]
    /\ UNCHANGED <<agent, root, steps, call>>

\* execute_script: the second pass is over
FinishScript ==
    /\ harness.pc = "block"
    /\ harness.b > Len(harness.blocks)
    /\ harness' = [harness EXCEPT !.pc = "done"]
    /\ last' = [op |-> "execute_script"]
    /\ UNCHANGED <<agent, root, steps, call>>

\* execute_block: the head of the block, up to the first action of its body
EnterBlock ==
    /\ harness.pc = "block"
    /\ harness.b <= Len(harness.blocks)
    /\ LET blk == harness.blocks[harness.b]
           body == [harness EXCEPT !.pc = "body", !.a = 1, !.i = 0,
                                   !.count = 0, !.ran = 0]
       IN CASE blk.block = "MacroDef" ->
                   /\ harness' = NextBlock(harness)
                   /\ last' = [op |-> "macro_def"]
            [] blk.block = "AtTau" ->
                   /\ harness' = [body EXCEPT !.ctx.tau = blk.tau]
                   /\ last' = [op |-> "enter_block"]
            [] blk.block = "Repeat" ->
                   /\ harness' = IF blk.n = 0 THEN NextBlock(harness) ELSE body
                   /\ last' = [op |-> "enter_block"]
            [] blk.block = "Parallel" ->
                   /\ harness' = body
                   /\ last' = [op |-> "enter_block"]
            [] blk.block = "While" ->
                   IF eval_condition(blk.cond, harness.ctx)
                   THEN /\ harness' = body
                        /\ last' = [op |-> "enter_block"]
                   ELSE /\ harness' = NextBlock(harness)
                        /\ last' = [op |-> "while_done", cond |-> blk.cond,
                                    entered |-> FALSE, broke |-> FALSE, ran |-> 0]
    /\ UNCHANGED <<agent, root, steps, call>>

\* execute_action(action, ctx) on the next action of the body
ExecuteAction ==
    /\ harness.pc = "body"
    /\ harness.a <= Len(BodyOf(harness))
    /\ LET action == BodyOf(harness)[harness.a]
           r == execute_action(action, harness.ctx, 1)
       IN /\ harness' = IF r.aborted
                        THEN [harness EXCEPT !.pc = "aborted"]
                        ELSE [harness EXCEPT !.ctx = r.ctx, !.a = harness.a + 1]
          /\ last' = [op |-> "execute_action", action |-> action]
    /\ UNCHANGED <<agent, root, steps, call>>

\* execute_block: the end of a pass over the body
EndOfBody ==
    /\ harness.pc = "body"
    /\ harness.a > Len(BodyOf(harness))
    /\ LET blk == harness.blocks[harness.b]
           ran == harness.ran + 1
       IN CASE blk.block \in {"AtTau", "Parallel"} ->
                   /\ harness' = NextBlock(harness)
                   /\ last' = [op |-> "block_done"]
            [] blk.block = "Repeat" ->
                   /\ harness' = IF harness.i + 1 < blk.n
                                 THEN [harness EXCEPT !.i = harness.i + 1, !.a = 1,
                                                      !.ran = ran]
                                 ELSE NextBlock([harness EXCEPT !.ran = ran])
                   /\ last' = [op |-> "block_done"]
            [] blk.block = "While" ->
                   LET count == harness.count + 1
                   IN IF count > WhileLimit
                      THEN /\ harness' = NextBlock([harness EXCEPT !.count = count,
                                                                   !.ran = ran])
                           /\ last' = [op |-> "while_done", cond |-> blk.cond,
                                       entered |-> TRUE, broke |-> TRUE, ran |-> ran]
                      ELSE IF eval_condition(blk.cond, harness.ctx)
                      THEN /\ harness' = [harness EXCEPT !.count = count, !.a = 1,
                                                         !.ran = ran]
                           /\ last' = [op |-> "while_again"]
                      ELSE /\ harness' = NextBlock([harness EXCEPT !.count = count,
                                                                   !.ran = ran])
                           /\ last' = [op |-> "while_done", cond |-> blk.cond,
                                       entered |-> TRUE, broke |-> FALSE, ran |-> ran]
    /\ UNCHANGED <<agent, root, steps, call>>

NextRunner ==
    \/ RegisterMacros
    \/ EnterBlock
    \/ ExecuteAction
    \/ EndOfBody
    \/ FinishScript

SpecRunner == InitRunner /\ [][NextRunner]_vars

----------------------------------------------------------------------------
(* The tree operations on the thread pool.  tick_recursive and             *)
(* propagate_mutation hand their children and their agents to              *)
(* par_iter_mut().for_each, and Substrate::decay hands the activations to  *)
(* par_iter_mut().for_each before its retain.  Each closure holds the only *)
(* reference to its element; for_each returns when every closure has       *)
(* returned.  A call in flight is a set of tasks, one per closure           *)
(* invocation that touches state, run one at a time in any order that the  *)
(* joins allow.                                                            *)

\* the tree with the node at `path` replaced by `node`
RECURSIVE ReplaceNode(_, _, _)
ReplaceNode(obj, path, node) ==
    IF path = <<>> THEN node
    ELSE [obj EXCEPT !.subobjects[Head(path)] =
             ReplaceNode(obj.subobjects[Head(path)], Tail(path), node)]

\* path p is a proper prefix of path q: the node at q is below the node at p
ProperPrefix(p, q) == Len(p) < Len(q) /\ SubSeq(q, 1, Len(p)) = p

\* the closure invocations of op on the tree `start`.  tick_recursive: one per
\* agent (decay_memory), one per activation (the multiplication) and the
\* retain of every node.  propagate_mutation: one per agent (express_symbol).
Tasks(op, start) ==
    LET agent_tasks ==
            UNION {{[kind |-> "agent", path |-> p, key |-> ToString(i)] :
                       i \in DOMAIN NodeAt(start, p).agents} : p \in Paths(start)}
        entry_tasks ==
            UNION {{[kind |-> "entry", path |-> p, key |-> q.p] :
                       q \in DOMAIN NodeAt(start, p).substrate.activations} :
                      p \in Paths(start)}
        retain_tasks == {[kind |-> "retain", path |-> p, key |-> ""] : p \in Paths(start)}
    IN IF op = "tick_recursive" THEN agent_tasks \cup entry_tasks \cup retain_tasks
       ELSE agent_tasks

\* the joins before a task may start.
\* tick_recursive: a node's agents after all of its subtrees, its activations
\* after its agents, its retain after its activations.
\* propagate_mutation: a node's agents after the agents of the nodes above it.
TaskEnabled(c, task) ==
    LET all == Tasks(c.op, c.start)
        before ==
            IF c.op = "tick_recursive"
            THEN {t \in all :
                     \/ ProperPrefix(task.path, t.path)
                     \/ /\ t.path = task.path
                        /\ \/ task.kind = "entry" /\ t.kind = "agent"
                           \/ task.kind = "retain" /\ t.kind \in {"agent", "entry"}}
            ELSE {t \in all : ProperPrefix(t.path, task.path)}
    IN before \subseteq c.done

\* one closure invocation, on the tree as it is now
TaskEffect(tree, op, message, task) ==
    LET node == NodeAt(tree, task.path)
    IN IF task.kind = "agent"
       THEN LET i == CHOOSE i \in DOMAIN node.agents : ToString(i) = task.key
            IN ReplaceNode(tree, task.path,
                   [node EXCEPT !.agents[i] =
                       IF op = "tick_recursive"
                       THEN decay_memory(node.agents[i], TickRate)
                       ELSE express_symbol(node.agents[i], MutationToken(message),
                                           MutationPattern, MutationTau).self])
       ELSE IF task.kind = "entry"
       THEN LET q == Pattern(task.key)
            IN ReplaceNode(tree, task.path,
                   [node EXCEPT !.substrate.activations[q] =
                       Max((node.substrate.activations[q] * (One - TickRate)) \div One, 0)])
       ELSE LET act == node.substrate.activations
                kept == {q \in DOMAIN act : act[q] > PruneThreshold}
            IN ReplaceNode(tree, task.path,
                   [node EXCEPT !.substrate.activations = [q \in kept |-> act[q]]])

\* a closure working on the tree as it was when the call began
ApplyTaskToSnapshot(tree, c, task) == TaskEffect(c.start, c.op, c.message, task)

\* the tree after `task` of the call c has run
ApplyTask(tree, c, task) == TaskEffect(tree, c.op, c.message, task)

\* the driver's set-up of a tree before the calls: two projections onto the
\* root's substrate and one onto its first child's
Prepared(t) ==
    ProjectInto(ProjectInto(ProjectInto(t, <<>>, Symbol("foo", Pattern("101"))),
                            <<>>, Symbol("foo", Pattern("111"))),
                <<1>>, Symbol("foo", Pattern("101")))

InitPar ==
    /\ \E t \in {WideTree, DeepTree} : root \in {Some(t), Some(Prepared(t))}
    /\ agent = AgentNew("a", 0, 0)
    /\ last = [op |-> "new"]
    /\ steps = 0
    /\ harness = NoHarness
    /\ call = None

\* root.tick_recursive() is called: nothing has run yet
StartTick ==
    /\ call = None
    /\ root # None
    /\ steps < MaxSteps
    /\ call' = Some([op |-> "tick_recursive", message |-> "",
                     start |-> root[1], done |-> {}])
    /\ last' = [op |-> "call"]
    /\ steps' = steps + 1
    /\ UNCHANGED <<agent, root, harness>>

\* root.propagate_mutation(message) is called: nothing has run yet
StartPropagate ==
    \E message \in Messages :
        /\ call = None
        /\ root # None
        /\ steps < MaxSteps
        /\ call' = Some([op |-> "propagate_mutation", message |-> message,
                         start |-> root[1], done |-> {}])
        /\ last' = [op |-> "call"]
        /\ steps' = steps + 1
        /\ UNCHANGED <<agent, root, harness>>

\* a worker runs one closure invocation that the joins allow
RunTask ==
    /\ call # None
    /\ \E task \in Tasks(call[1].op, call[1].start) \ call[1].done :
           /\ TaskEnabled(call[1], task)
           /\ root' = Some(ApplyTask(root[1], call[1], task))
           /\ call' = Some([call[1] EXCEPT !.done = call[1].done \cup {task}])
    /\ UNCHANGED <<agent, last, steps, harness>>

\* every closure has returned: the outermost for_each, and with it the call,
\* returns to the driver
ReturnFromCall ==
    /\ call # None
    /\ call[1].done = Tasks(call[1].op, call[1].start)
    /\ last' = [op |-> "return", of |-> call[1].op, message |-> call[1].message,
                start |-> call[1].start]
    /\ call' = None
    /\ UNCHANGED <<agent, root, steps, harness>>

NextPar ==
    \/ StartTick
    \/ StartPropagate
    \/ RunTask
    \/ ReturnFromCall

SpecPar == InitPar /\ [][NextPar]_vars

----------------------------------------------------------------------------
(* tests/symmetry.rs: test_attractor_detection.  The test expresses one    *)
(* symbol, interprets it in a loop, checks the attractor state, interprets *)
(* the mutated symbol and checks again.  The test function is modelled     *)
(* with its inputs opened up: the Agent::new arguments and the symbol are  *)
(* drawn from sets, the tau of a loop iteration is the test's tau + i or   *)
(* the unchanged tau, the loop may be left after any iteration, and the    *)
(* attractor check takes any window.  The test's is_attractor_state(w) is  *)
(* symmetry::detect_attractor(&agent, w): Agent has no such method.        *)

\* for i in 0..5
LoopCount == 5
\* is_attractor_state(3)
TestWindow == 3
\* Agent::new arguments: the test's (16, 0.1), a single-slot memory, and a
\* threshold that admits nothing
TestAgentArgs == {<<16, 10>>, <<1, 10>>, <<2, 150>>}

InitTest ==
    /\ \E x \in TestAgentArgs : agent = AgentNew("a", x[1], x[2])
    /\ root = None
    /\ last = [op |-> "new"]
    /\ steps = 0
    /\ harness = [pc |-> "start", s |-> None, i |-> 0]
    /\ call = None

\* let s = agent.express_symbol("foo", Pattern::new("101"), tau), tau = 0
TestExpress ==
    \E sym \in Symbols :
        LET r == express_symbol(agent, sym.token, sym.pattern, 0)
        IN /\ harness.pc = "start"
           /\ agent' = r.self
           /\ harness' = [pc |-> "loop", s |-> Some(r.ret), i |-> 0]
           /\ last' = [op |-> "express_symbol", token |-> sym.token,
                       pattern |-> sym.pattern, tau |-> 0, ret |-> r.ret]
           /\ UNCHANGED <<root, steps, call>>

\* one iteration of the loop: agent.interpret_symbol(&s, tau + i)
TestInterpret ==
    /\ harness.pc = "loop"
    /\ harness.i < LoopCount
    /\ ~Aborted
    /\ \E tau \in {0, harness.i} :
           LET r == interpret_symbol(agent, harness.s[1], tau)
           IN /\ agent' = r.self
              /\ last' = [op |-> "interpret_symbol", symbol |-> harness.s[1],
                          tau |-> tau, ret |-> r.ret]
    /\ harness' = [harness EXCEPT !.i = harness.i + 1]
    /\ UNCHANGED <<root, steps, call>>

\* the value asserted on: agent.is_attractor_state(window)
TestAttractor ==
    /\ harness.pc \in {"loop", "mutated"}
    /\ ~Aborted
    /\ \E window \in Windows \cup {TestWindow} :
           last' = [op |-> "detect_attractor", window |-> window,
                    ret |-> detect_attractor(agent, window)]
    /\ UNCHANGED <<agent, root, steps, harness, call>>

\* let s2 = agent.mutate_symbol(&s); agent.interpret_symbol(&s2, tau + 5)
TestMutate ==
    /\ harness.pc = "loop"
    /\ ~Aborted
    /\ LET s2 == mutate_symbol(agent, harness.s[1])
           r == interpret_symbol(agent, s2, harness.i)
       IN /\ agent' = r.self
          /\ last' = [op |-> "interpret_mutated", symbol |-> s2,
                      tau |-> harness.i, ret |-> r.ret]
    /\ harness' = [harness EXCEPT !.pc = "mutated"]
    /\ UNCHANGED <<root, steps, call>>

NextTest ==
    \/ TestExpress
    \/ TestInterpret
    \/ TestAttractor
    \/ TestMutate

SpecTest == InitTest /\ [][NextTest]_vars

----------------------------------------------------------------------------
(* Properties of the memory field and the agent, under Spec.               *)

Traces == agent.memory.traces
Capacity == agent.memory.max_traces

\* The last operation handed a trace to MemoryField::admit: a direct admit
\* call, or express_symbol (which admits the trace it builds).
LastAdmits == last.op \in {"admit", "express_symbol"}
LastAdmitTrace ==
    IF last.op = "admit" THEN last.trace
    ELSE MemoryTrace(Symbol(last.token, last.pattern), last.tau, One, <<>>)
LastAdmitEta == IF last.op = "admit" THEN last.eta ELSE agent.coherence_threshold

\* C1: in every reachable state, whatever capacity the agent was constructed
\* with, the number of stored traces does not exceed max_traces.
C1_LengthWithinCapacity == Len(Traces) <= Capacity

\* C2: when admit succeeds on a field that is at capacity, exactly one trace is
\* removed, the oldest (front) one; the others keep their order and the new
\* trace becomes the back entry.
C2_EvictsExactlyOldest ==
    [][(LastAdmits' /\ LastAdmitTrace'.stability >= LastAdmitEta'
            /\ Len(Traces) >= Capacity)
        => /\ Len(Traces) >= 1
           /\ Len(Traces') = Len(Traces)
           /\ \A i \in 1..(Len(Traces) - 1) : Traces'[i] = Traces[i + 1]
           /\ Traces'[Len(Traces')] = LastAdmitTrace']_vars

\* C3: admit(trace, eta) inserts the trace (as the back entry, after at most
\* one eviction from the front) if and only if trace.stability >= eta; below
\* the gate the field is left exactly as it was, also at capacity.
C3_AdmitIffStable ==
    [][last'.op = "admit"
        => IF last'.trace.stability >= last'.eta
           THEN /\ Len(Traces') >= 1
                /\ Traces'[Len(Traces')] = last'.trace
                /\ Len(Traces') \in {Len(Traces), Len(Traces) + 1}
                /\ \A i \in 1..(Len(Traces') - 1) :
                       Traces'[i] = Traces[i + Len(Traces) + 1 - Len(Traces')]
                /\ Capacity' = Capacity
           ELSE agent'.memory = agent.memory]_vars

\* a rejected admit on a full field of capacity 2 or more: nothing was evicted
C3_Witness ==
    /\ last.op = "admit"
    /\ last.trace.stability < last.eta
    /\ Capacity >= 2
    /\ Len(Traces) = Capacity

\* C4: every stored trace's stability is within [0,1], whatever delta and rate
\* arguments reinforce and decay were called with.
C4_StabilityInUnitInterval ==
    \A i \in DOMAIN Traces : 0 <= Traces[i].stability /\ Traces[i].stability <= One

\* The agent's current binding for the symbol's token is the symbol's pattern.
CurrentlyBound(a, symbol) ==
    /\ symbol.token \in DOMAIN a.symbol_table
    /\ a.symbol_table[symbol.token] = symbol.pattern

\* C5: interpret_symbol returns a Meaning (of that symbol and tau) if and only
\* if the token is bound to exactly the symbol's pattern; otherwise it returns
\* nothing and the agent (table, traces, stabilities, interpretants) is unchanged.
C5_InterpretIffBound ==
    [][last'.op = "interpret_symbol"
        => IF CurrentlyBound(agent, last'.symbol)
           THEN /\ Len(last'.ret) = 1
                /\ last'.ret[1].sign = last'.symbol
                /\ last'.ret[1].tau = last'.tau
                /\ agent'.symbol_table = agent.symbol_table
           ELSE /\ last'.ret = <<>>
                /\ agent' = agent]_vars

\* a refused interpretation of a stale pattern whose trace is still in memory,
\* after the token was rebound to another pattern
C5_Witness ==
    /\ last.op = "interpret_symbol"
    /\ last.ret = <<>>
    /\ last.symbol.token \in DOMAIN agent.symbol_table
    /\ agent.symbol_table[last.symbol.token] # last.symbol.pattern
    /\ Capacity >= 2
    /\ \E i, j \in DOMAIN Traces :
           /\ i < j
           /\ Traces[i].symbol = last.symbol
           /\ Traces[j].symbol.token = last.symbol.token
           /\ Traces[j].symbol.pattern = agent.symbol_table[last.symbol.token]

\* C6: express_symbol always binds the token to the pattern (other bindings
\* untouched) and returns the Symbol; the trace (stability 1.0, tau_index tau,
\* no interpretants) becomes the back entry of memory exactly when
\* 1.0 >= coherence_threshold, and otherwise memory is unchanged.
C6_ExpressBindsAlways ==
    [][last'.op = "express_symbol"
        => /\ last'.ret = [token |-> last'.token, pattern |-> last'.pattern]
           /\ DOMAIN agent'.symbol_table = DOMAIN agent.symbol_table \cup {last'.token}
           /\ agent'.symbol_table[last'.token] = last'.pattern
           /\ \A t \in DOMAIN agent.symbol_table \ {last'.token} :
                  agent'.symbol_table[t] = agent.symbol_table[t]
           /\ agent'.coherence_threshold = agent.coherence_threshold
           /\ agent'.id = agent.id
           /\ IF One >= agent.coherence_threshold
              THEN /\ Len(Traces') >= 1
                   /\ Traces'[Len(Traces')] =
                          [symbol |-> last'.ret, tau_index |-> last'.tau,
                           stability |-> One, interpretants |-> <<>>]
              ELSE agent'.memory = agent.memory]_vars

\* an expression whose trace was dropped by the gate: the token is bound, to
\* a pattern it was not bound to before, and memory is still empty
C6_Witness ==
    /\ last.op = "express_symbol"
    /\ agent.coherence_threshold > One
    /\ agent.symbol_table[last.token] = last.pattern
    /\ last.pattern = [p |-> "111"]
    /\ Traces = <<>>
    /\ steps >= 2

----------------------------------------------------------------------------
(* Properties of the category-object tree, under SpecTree.                 *)

\* the recursion levels in their order, Void first
LevelOrder == <<"Void", "Particle", "Atom", "Molecule", "Cell">>

\* C7: promote on a Cell returns nothing; on any other level it returns a node
\* of exactly the next level whose only child is the original object,
\* unchanged, whose substrate is empty, which owns no agents, and whose id is
\* the new level's ordinal, a hyphen and the old id.
C7_PromoteWrapsOriginal ==
    [][last'.op = "promote"
        => IF root[1].level = "Cell"
           THEN root' = <<>>
           ELSE /\ Len(root') = 1
                /\ \E k \in 1..4 :
                       /\ LevelOrder[k] = root[1].level
                       /\ root'[1].level = LevelOrder[k + 1]
                       /\ root'[1].id = ToString(k) \o "-" \o root[1].id
                /\ root'[1].subobjects = <<root[1]>>
                /\ DOMAIN root'[1].substrate.activations = {}
                /\ root'[1].agents = <<>>]_vars

\* a promotion of a tree that has children, an agent holding a trace and a
\* non-empty substrate, all found again one level down
C7_Witness ==
    /\ last.op = "promote"
    /\ Len(root) = 1
    /\ Len(root[1].subobjects) = 1
    /\ LET original == root[1].subobjects[1]
       IN /\ Len(original.subobjects) >= 2
          /\ DOMAIN original.substrate.activations # {}
          /\ \E i \in DOMAIN original.agents : original.agents[i].memory.traces # <<>>

\* the traces of a field after one decay at `rate`: each stability lowered by
\* rate, not below 0, and the traces left at 0 dropped
DecayedTraces(traces, rate) ==
    LET lowered == [j \in DOMAIN traces |->
                      [symbol |-> traces[j].symbol,
                       tau_index |-> traces[j].tau_index,
                       stability |-> IF traces[j].stability > rate
                                     THEN traces[j].stability - rate ELSE 0,
                       interpretants |-> traces[j].interpretants]]
        alive(t) == t.stability # 0
    IN SelectSeq(lowered, alive)

\* agent `after` is agent `before` with its memory decayed once at 0.05
AgentTickedOnce(before, after) ==
    /\ after.id = before.id
    /\ after.symbol_table = before.symbol_table
    /\ after.coherence_threshold = before.coherence_threshold
    /\ after.memory.max_traces = before.memory.max_traces
    /\ after.memory.traces = DecayedTraces(before.memory.traces, 5)

\* substrate `after` is substrate `before` decayed once at 0.05: every value
\* multiplied by 0.95, the values of 0.01 or less removed
SubstrateTickedOnce(before, after) ==
    LET act == before.activations
    IN /\ DOMAIN after.activations = {q \in DOMAIN act : (act[q] * 95) \div 100 > 1}
       /\ \A q \in DOMAIN after.activations :
              after.activations[q] = (act[q] * 95) \div 100

\* C8: one tick_recursive call applies, to every node of the tree exactly
\* once, a memory decay of 0.05 to each agent of the node and a substrate decay
\* of 0.05 to the node's substrate; shape, levels and ids are unchanged.
C8_TickVisitsEveryNodeOnce ==
    [][last'.op = "tick_recursive"
        => /\ Len(root') = 1
           /\ Paths(root'[1]) = Paths(root[1])
           /\ \A p \in Paths(root[1]) :
                  LET before == NodeAt(root[1], p)
                      after == NodeAt(root'[1], p)
                  IN /\ after.level = before.level
                     /\ after.id = before.id
                     /\ Len(after.subobjects) = Len(before.subobjects)
                     /\ Len(after.agents) = Len(before.agents)
                     /\ SubstrateTickedOnce(before.substrate, after.substrate)
                     /\ \A i \in DOMAIN before.agents :
                            AgentTickedOnce(before.agents[i], after.agents[i])]_vars

\* a tick of a tree that holds, at the root and two levels below it, a decayed
\* trace and a decayed activation
C8_Witness ==
    /\ last.op = "tick_recursive"
    /\ Len(root) = 1
    /\ \E p, q \in Paths(root[1]) :
           /\ Len(p) = 0
           /\ Len(q) >= 2
           /\ \E x \in DOMAIN NodeAt(root[1], p).substrate.activations :
                  NodeAt(root[1], p).substrate.activations[x] = 95
           /\ \E x \in DOMAIN NodeAt(root[1], q).substrate.activations :
                  NodeAt(root[1], q).substrate.activations[x] = 95
           /\ \E r \in Paths(root[1]) \ {q} : \E i \in DOMAIN NodeAt(root[1], r).agents :
                  \E j \in DOMAIN NodeAt(root[1], r).agents[i].memory.traces :
                      NodeAt(root[1], r).agents[i].memory.traces[j].stability = 95
           /\ \E i \in DOMAIN NodeAt(root[1], q).agents :
                  \E j \in DOMAIN NodeAt(root[1], q).agents[i].memory.traces :
                      NodeAt(root[1], q).agents[i].memory.traces[j].stability = 95

\* agent `after` is agent `before` after one express_symbol of
\* ("mutation:" + message, "111", 0)
AgentMutatedOnce(before, after, message) ==
    LET token == "mutation:" \o message
        symbol == [token |-> token, pattern |-> [p |-> "111"]]
        trace == [symbol |-> symbol, tau_index |-> 0, stability |-> 100,
                  interpretants |-> <<>>]
        old == before.memory.traces
        kept == IF Len(old) >= before.memory.max_traces /\ Len(old) >= 1
                THEN SubSeq(old, 2, Len(old)) ELSE old
    IN /\ after.id = before.id
       /\ after.coherence_threshold = before.coherence_threshold
       /\ after.memory.max_traces = before.memory.max_traces
       /\ DOMAIN after.symbol_table = DOMAIN before.symbol_table \cup {token}
       /\ after.symbol_table[token] = [p |-> "111"]
       /\ \A t \in DOMAIN before.symbol_table \ {token} :
              after.symbol_table[t] = before.symbol_table[t]
       /\ after.memory.traces =
              IF 100 >= before.coherence_threshold THEN kept \o <<trace>> ELSE old

\* C9: after propagate_mutation(message), every agent of the node and of every
\* descendant has "mutation:" + message bound to pattern "111" and has had
\* exactly one express_symbol(that token, "111", 0) applied; substrates,
\* levels, ids and the tree shape are unchanged.
C9_MutationReachesEveryAgent ==
    [][last'.op = "propagate_mutation"
        => /\ Len(root') = 1
           /\ Paths(root'[1]) = Paths(root[1])
           /\ \A p \in Paths(root[1]) :
                  LET before == NodeAt(root[1], p)
                      after == NodeAt(root'[1], p)
                  IN /\ after.level = before.level
                     /\ after.id = before.id
                     /\ after.substrate = before.substrate
                     /\ Len(after.subobjects) = Len(before.subobjects)
                     /\ Len(after.agents) = Len(before.agents)
                     /\ \A i \in DOMAIN before.agents :
                            AgentMutatedOnce(before.agents[i], after.agents[i],
                                             last'.message)]_vars

\* a second mutation, with another message, that reached an agent two levels
\* below the root, whose memory of capacity 1 now holds only the new trace
C9_Witness ==
    /\ last.op = "propagate_mutation"
    /\ Len(root) = 1
    /\ \E q \in Paths(root[1]) :
           /\ Len(q) >= 2
           /\ \E i \in DOMAIN NodeAt(root[1], q).agents :
                  LET a == NodeAt(root[1], q).agents[i]
                  IN /\ Cardinality(DOMAIN a.symbol_table) = 2
                     /\ a.memory.max_traces = 1
                     /\ Len(a.memory.traces) = 1
                     /\ a.memory.traces[1].symbol.token = "mutation:" \o last.message
                     /\ a.memory.traces[1].tau_index = 0

\* all (path, agent index, trace index) triples of a tree: one per stored trace
TraceSlots(obj) ==
    UNION {UNION {{<<p, i, j>> : j \in DOMAIN NodeAt(obj, p).agents[i].memory.traces} :
                     i \in DOMAIN NodeAt(obj, p).agents} :
              p \in Paths(obj)}

\* the stabilities of the traces in `slots`, added up one by one
RECURSIVE TotalStability(_, _)
TotalStability(obj, slots) ==
    IF slots = {} THEN 0
    ELSE LET x == CHOOSE x \in slots : TRUE
         IN NodeAt(obj, x[1]).agents[x[2]].memory.traces[x[3]].stability
                + TotalStability(obj, slots \ {x})

\* C10: aggregate_stability() on a node is the sum of the stabilities of all
\* traces of all agents of the node and of every descendant (0 without traces).
C10_AggregateIsTreeSum ==
    last.op = "aggregate_stability"
        => last.ret = TotalStability(root[1], TraceSlots(root[1]))

\* an aggregation over traces of different stability held by an inner node
\* and by a node two levels below the root
C10_Witness ==
    /\ last.op = "aggregate_stability"
    /\ last.ret > 0
    /\ \E x, y \in TraceSlots(root[1]) :
           /\ NodeAt(root[1], x[1]).subobjects # <<>>
           /\ Len(y[1]) >= 2
           /\ NodeAt(root[1], x[1]).agents[x[2]].memory.traces[x[3]].stability
                  # NodeAt(root[1], y[1]).agents[y[2]].memory.traces[y[3]].stability


C12_InterpretVariantIsLevel ==
    (last.op = "interpret" /\ root # None) =>
        LET node == NodeAt(root[1], last.path)
        IN /\ (last.ret = None) <=> (node.level = "Void")
           /\ last.ret # None =>
                  /\ last.ret[1].variant = node.level
                  /\ last.ret[1].variant \in {"Particle", "Atom", "Molecule", "Cell"}
                  /\ last.ret[1].value.id = node.id

\* an Atom with Particle and Void children interpreted as an Atom under its
\* own id, after one of its particles received an activation
C12_Witness ==
    /\ last.op = "interpret"
    /\ root # None
    /\ LET node == NodeAt(root[1], last.path)
       IN /\ node.level = "Atom"
          /\ \E i, j \in DOMAIN node.subobjects :
                 /\ node.subobjects[i].level = "Void"
                 /\ node.subobjects[j].level = "Particle"
                 /\ node.subobjects[j].substrate.activations # <<>>
          /\ last.ret # None
          /\ last.ret[1].variant = "Atom"
          /\ last.ret[1].value.id = node.id

\* the activations after one projection of `pattern`: that entry one higher,
\* starting from 0 when absent, every other entry as it was
ProjectedOnce(act, pattern) ==
    [q \in (DOMAIN act) \cup {pattern} |->
        IF q # pattern THEN act[q]
        ELSE IF pattern \in DOMAIN act THEN act[pattern] + One ELSE One]

\* C16: Substrate.project raises the activation of the symbol's pattern by
\* exactly 1, creating the entry from 0 when absent, and changes no other
\* entry; the effect is determined by the pattern, whatever the token; and
\* through Agent.project_symbol the calling agent (and every other agent)
\* keeps its symbol table and memory.
C16_ProjectAddsOneToPattern ==
    [][last'.op \in {"project", "project_symbol"} =>
          /\ root' # None
          /\ Paths(root'[1]) = Paths(root[1])
          /\ \A q \in Paths(root[1]) :
                 LET old == NodeAt(root[1], q)
                     new == NodeAt(root'[1], q)
                 IN /\ new.level = old.level
                    /\ new.id = old.id
                    /\ new.agents = old.agents
                    /\ new.substrate.activations =
                           IF q = last'.path
                           THEN ProjectedOnce(old.substrate.activations,
                                              last'.symbol.pattern)
                           ELSE old.substrate.activations
          /\ agent' = agent]_vars

\* an agent holding a trace has projected a symbol of token "bar" onto an
\* entry that symbols of token "foo" had raised before: the entry stands at
\* 2.0 and the entry of the other pattern is still there
C16_Witness ==
    /\ last.op = "project_symbol"
    /\ root # None
    /\ last.symbol.token = "bar"
    /\ LET node == NodeAt(root[1], last.path)
       IN /\ Len(node.agents[last.index].memory.traces) >= 1
          /\ Cardinality(DOMAIN node.substrate.activations) = 2
          /\ node.substrate.activations[last.symbol.pattern] = 2 * One

----------------------------------------------------------------------------
(* Properties of the detectors, under Spec.                                *)

\* every trace has at least window+1 interpretants, and the descriptions of
\* its last `window` interpretants are all the same
AllTracesStable(a, window) ==
    \A i \in DOMAIN a.memory.traces :
        LET meanings == a.memory.traces[i].interpretants
            n == Len(meanings)
        IN /\ n >= window + 1
           /\ \A j, k \in (n - window + 1)..n :
                  meanings[j].description = meanings[k].description

\* C13: detect_symmetry(agent, window) returns true exactly when every trace
\* in memory has at least window+1 interpretants whose last `window`
\* descriptions are all identical; so true with no traces, and false as soon
\* as one trace has fewer than window+1 interpretants.
C13_SymmetryIffAllTracesStable ==
    last.op = "detect_symmetry"
        => last.ret = Returned(AllTracesStable(agent, last.window))

\* C18: no core operation aborts or panics, in any reachable state and for
\* any argument, window 0 of the detectors and memory capacity 0 included.
C18_NoCoreOperationPanics == ~Aborted

----------------------------------------------------------------------------
(* Properties of the test scenario, under SpecTest.                        *)

\* the loop has run n times with the test's taus 0, 1, .., n-1 and the
\* expressed symbol's trace is in memory, holding the n interpretants
LoopRanWithIncreasingTau(n) ==
    /\ harness.pc = "loop"
    /\ harness.i = n
    /\ Len(agent.memory.traces) = 1
    /\ agent.memory.traces[1].symbol = harness.s[1]
    /\ Len(agent.memory.traces[1].interpretants) = n
    /\ \A j \in 1..n : agent.memory.traces[1].interpretants[j].tau = j - 1

\* C14: when the agent's memory admits the trace, express_symbol(token, P, 0)
\* followed by at least window+1 interpret_symbol calls on the returned
\* symbol with increasing tau leaves the agent in an attractor state:
\* detect_attractor(agent, window) is true.  Stated for window >= 1.
C14_AttractorAfterRepeatedInterpretation ==
    (/\ last.op = "detect_attractor"
     /\ last.window >= 1
     /\ \E n \in (last.window + 1)..LoopCount : LoopRanWithIncreasingTau(n))
        => last.ret = Returned(TRUE)

\* C15: from a state in which the attractor check for window 3 is true,
\* interpreting the mutated symbol (which was never expressed) makes the
\* attractor check for window 3 false.  Stated for a memory holding the
\* expressed symbol's trace.
C15_MutatedInterpretationBreaksAttractor ==
    [][(/\ last'.op = "interpret_mutated"
        /\ Len(agent.memory.traces) >= 1
        /\ detect_attractor(agent, TestWindow) = Returned(TRUE))
           => detect_attractor(agent', TestWindow) = Returned(FALSE)]_vars

----------------------------------------------------------------------------
(* Properties of the substrate, under SpecSubstrate.                       *)

\* a * (1 - rate), floored at 0, in hundredths
Scaled(a, rate) == Max((a * (One - rate)) \div One, 0)

\* C17: Substrate.decay(rate) with rate in [0, 1] turns every activation a
\* into a * (1 - rate) floored at 0 and then removes every entry whose value
\* is at most 0.01; after a decay no remaining entry is at most 0.01, and
\* rate 1.0 removes every entry in one call.
C17_DecayScalesThenPrunes ==
    [][last'.op = "substrate_decay" =>
          LET old == NodeAt(root[1], last'.path).substrate.activations
              new == NodeAt(root'[1], last'.path).substrate.activations
              rate == last'.rate
          IN /\ DOMAIN new = {q \in DOMAIN old : ~(Scaled(old[q], rate) <= PruneThreshold)}
             /\ \A q \in DOMAIN new : new[q] = Scaled(old[q], rate)
             /\ \A q \in DOMAIN new : ~(new[q] <= PruneThreshold)
             /\ rate = One => DOMAIN new = {}]_vars

\* a decay by 0.99 on the fourth call has left exactly one entry, at 0.02:
\* what remains of an activation of 2.0
C17_Witness ==
    /\ last.op = "substrate_decay"
    /\ last.rate = 99
    /\ steps = MaxSteps
    /\ root # None
    /\ LET act == NodeAt(root[1], last.path).substrate.activations
       IN /\ Cardinality(DOMAIN act) = 1
          /\ \A q \in DOMAIN act : act[q] = 2

----------------------------------------------------------------------------
(* Further properties of the memory field, under Spec.                     *)

\* C19: decay_all(rate) lowers every trace's stability to
\* max(0, stability - rate) and then removes exactly the traces whose
\* stability is 0; after it no stored trace has stability 0, and the
\* survivors keep their relative order and their interpretants.
C19_DecayAllLowersThenDrops ==
    [][last'.op = "decay_memory" =>
          /\ Traces' = DecayedTraces(Traces, last'.rate)
          /\ \A i \in DOMAIN Traces' : Traces'[i].stability > 0
          /\ Capacity' = Capacity
          /\ agent'.symbol_table = agent.symbol_table]_vars

\* two tokens were expressed into a memory with room for both, and after a
\* decay only one trace is left, at 0.5: another trace was lowered to 0 and
\* removed
C19_Witness ==
    /\ last.op = "decay_memory"
    /\ last.rate = 50
    /\ Capacity >= 2
    /\ agent.coherence_threshold <= One
    /\ Cardinality(DOMAIN agent.symbol_table) = 2
    /\ Len(Traces) = 1
    /\ Traces[1].stability = 50

----------------------------------------------------------------------------
(* Properties of the tree operations on the thread pool, under SpecPar.    *)

\* C20: whatever the order in which the pool runs the closures of
\* tick_recursive and propagate_mutation over children, agents and
\* activations, when the call returns the tree is the one that the
\* sequential, left-to-right computation produces from the tree the call
\* began with, and no closure is still outstanding.
C20_ParallelEqualsSequential ==
    last.op = "return" =>
        /\ call = None
        /\ root = Some(IF last.of = "tick_recursive"
                       THEN tick_recursive(last.start)
                       ELSE propagate_mutation(last.start, last.message))

\* a tick has returned on a tree whose root has three children, two of them
\* with agents holding decayed traces, and decayed activations at two nodes
C20_Witness ==
    /\ last.op = "return"
    /\ last.of = "tick_recursive"
    /\ root # None
    /\ Len(root[1].subobjects) >= 3
    /\ root[1].substrate.activations # <<>>
    /\ root[1].subobjects[1].substrate.activations # <<>>
    /\ root[1] # last.start
    /\ \E i, j \in DOMAIN root[1].subobjects :
           /\ i # j
           /\ \E k \in DOMAIN root[1].subobjects[i].agents :
                  \E n \in DOMAIN root[1].subobjects[i].agents[k].memory.traces :
                      root[1].subobjects[i].agents[k].memory.traces[n].stability < One
           /\ \E k \in DOMAIN root[1].subobjects[j].agents :
                  \E n \in DOMAIN root[1].subobjects[j].agents[k].memory.traces :
                      root[1].subobjects[j].agents[k].memory.traces[n].stability < One

----------------------------------------------------------------------------
(* Properties of symbols and interpretation, under Spec.                   *)

\* C21: mutate_symbol returns a new Symbol whose token is the original token
\* with the marker '*' appended (one character longer) and whose pattern is
\* the original pattern; the input symbol and the agent's symbol table and
\* memory are as before, so the mutated symbol never equals the original.
C21_MutateAppendsMarker ==
    [][last'.op = "mutate_symbol" =>
          /\ last'.ret.token = last'.symbol.token \o "*"
          /\ Len(last'.ret.token) = Len(last'.symbol.token) + 1
          /\ last'.ret.pattern = last'.symbol.pattern
          /\ last'.ret # last'.symbol
          /\ agent' = agent]_vars

\* the symbol of a trace in memory, bound in the table, was mutated twice in
\* a row: the result carries two markers and is neither bound nor in memory
C21_Witness ==
    /\ last.op = "mutate_symbol"
    /\ last.ret.token = "foo**"
    /\ "foo" \in DOMAIN agent.symbol_table
    /\ agent.symbol_table["foo"] = last.ret.pattern
    /\ last.ret.token \notin DOMAIN agent.symbol_table
    /\ \E i \in DOMAIN Traces : Traces[i].symbol = Symbol("foo", last.ret.pattern)
    /\ \A i \in DOMAIN Traces : Traces[i].symbol # last.ret

\* the Meaning of an interpretation of `symbol` at `tau`
MeaningOf(symbol, tau) ==
    [sign |-> symbol, tau |-> tau,
     description |-> "Interpretation of '" \o symbol.token \o "' at τ=" \o ToString(tau)]

\* C22: a successful interpret_symbol(symbol, tau) raises by 0.1, not above 1,
\* the stability of every trace whose symbol equals `symbol` in token and
\* pattern, and appends the new Meaning (tau, description built from token
\* and tau) to the interpretants of the first such trace only; traces of
\* another token or another pattern are unchanged.
C22_InterpretReinforcesAllAppendsFirst ==
    [][(last'.op = "interpret_symbol" /\ last'.ret # None) =>
          LET symbol == last'.symbol
              meaning == MeaningOf(symbol, last'.tau)
              matching == {i \in DOMAIN Traces : Traces[i].symbol = symbol}
          IN /\ last'.ret = Some(meaning)
             /\ Len(Traces') = Len(Traces)
             /\ \A i \in DOMAIN Traces :
                    IF i \in matching
                    THEN /\ Traces'[i].symbol = symbol
                         /\ Traces'[i].tau_index = Traces[i].tau_index
                         /\ Traces'[i].stability =
                                Min(Traces[i].stability + InterpretDelta, One)
                         /\ Traces'[i].interpretants =
                                IF \A j \in matching : i <= j
                                THEN Append(Traces[i].interpretants, meaning)
                                ELSE Traces[i].interpretants
                    ELSE Traces'[i] = Traces[i]]_vars

\* a successful interpretation with three traces in memory: two of the
\* symbol, the older one holding the new meaning and the younger one raised
\* from 0.1 to 0.2 without any interpretant, and one of the same token with
\* another pattern, untouched
C22_Witness ==
    /\ last.op = "interpret_symbol"
    /\ last.ret # None
    /\ \E i, j, k \in DOMAIN Traces :
           /\ i < j
           /\ Traces[i].symbol = last.symbol
           /\ Traces[j].symbol = last.symbol
           /\ Traces[i].interpretants = last.ret
           /\ Traces[j].interpretants = <<>>
           /\ Traces[j].stability = 20
           /\ Traces[k].symbol.token = last.symbol.token
           /\ Traces[k].symbol.pattern # last.symbol.pattern
           /\ Traces[k].interpretants = <<>>
           /\ Traces[k].stability = One

\* C23: after express_symbol(token, P1, _) followed by
\* express_symbol(token, P2, _) with P1 # P2 the table holds the latest
\* binding only; from then on interpret_symbol on (token, P2) succeeds, and
\* interpret_symbol on (token, P1) returns nothing and changes nothing, even
\* with the trace of (token, P1) still in memory.
C23_LastBindingWins ==
    [][/\ (/\ last.op = "express_symbol"
            /\ last'.op = "express_symbol"
            /\ last'.token = last.token
            /\ last'.pattern # last.pattern)
           => /\ agent'.symbol_table[last'.token] = last'.pattern
              /\ agent'.symbol_table[last'.token] # last.pattern
       /\ (/\ last'.op = "interpret_symbol"
            /\ last'.symbol.token \in DOMAIN agent.symbol_table)
           => IF agent.symbol_table[last'.symbol.token] = last'.symbol.pattern
              THEN last'.ret # None
              ELSE last'.ret = None /\ agent' = agent]_vars

\* after a rebinding, the interpretation of the latest binding succeeded:
\* its trace holds the meaning, and the older trace of the same token with
\* the stale pattern is still in memory, as it was expressed
C23_Witness ==
    /\ last.op = "interpret_symbol"
    /\ last.ret # None
    /\ agent.symbol_table[last.symbol.token] = last.symbol.pattern
    /\ \E i, j \in DOMAIN Traces :
           /\ i < j
           /\ Traces[i].symbol.token = last.symbol.token
           /\ Traces[i].symbol.pattern # last.symbol.pattern
           /\ Traces[i].stability = One
           /\ Traces[i].interpretants = <<>>
           /\ Traces[j].symbol = last.symbol
           /\ Traces[j].interpretants = last.ret
    /\ Len(Traces) = 2

\* some trace with at least window+1 interpretants has two consecutive
\* interpretants of different descriptions among its last `window`
SomeTraceDifferentiates(a, window) ==
    \E i \in DOMAIN a.memory.traces :
        LET meanings == a.memory.traces[i].interpretants
            n == Len(meanings)
        IN /\ n >= window + 1
           /\ \E j \in (n - window + 1)..(n - 1) :
                  meanings[j].description # meanings[j + 1].description

\* C24: detect_differentiation(agent, window) returns true exactly when some
\* trace with at least window+1 interpretants has two consecutive
\* interpretants with different descriptions among its last `window`;
\* shorter traces are skipped and decide nothing.
C24_DifferentiationIffSomePairDiffers ==
    last.op = "detect_differentiation"
        => last.ret = Returned(SomeTraceDifferentiates(agent, last.window))

----------------------------------------------------------------------------
(* Properties of interpretation over mixed children, under SpecMixed.      *)

NotVoidLevel(s) == s.level # "Void"

\* C25 as stated: the Cell-level interpretation has exactly one
\* contributing_meanings entry for every immediate child whatever the
\* child's level, its summary reports that count, and emergent_properties
\* is the single tag "homeostasis".
C25_CellCountsEveryChild ==
    (last.op = "interpret" /\ root # None /\ NodeAt(root[1], last.path).level = "Cell") =>
        LET node == NodeAt(root[1], last.path)
            cell == last.ret[1].value
        IN /\ Len(cell.contributing_meanings) = Len(node.subobjects)
           /\ cell.summary = "Cell " \o node.id \o " integrates "
                                 \o ToString(Len(node.subobjects)) \o " sub-meanings"
           /\ cell.emergent_properties = <<"homeostasis">>

\* C25, amended: the Cell-level interpretation has exactly one
\* contributing_meanings entry for every immediate child whose level is not
\* Void, in child order, each the Debug text of that child's interpretation;
\* a Void child has no interpretation and contributes no entry.  The summary
\* reports the number of entries, and emergent_properties is the single tag
\* "homeostasis" whatever the children are.
C25_CellCountsInterpretedChildren ==
    (last.op = "interpret" /\ root # None /\ NodeAt(root[1], last.path).level = "Cell") =>
        LET node == NodeAt(root[1], last.path)
            cell == last.ret[1].value
            interpreted == SelectSeq(node.subobjects, NotVoidLevel)
        IN /\ Len(cell.contributing_meanings) = Len(interpreted)
           /\ \A k \in DOMAIN interpreted :
                  cell.contributing_meanings[k] =
                      DebugInterpretation(interpret(interpreted[k])[1])
           /\ cell.summary = "Cell " \o node.id \o " integrates "
                                 \o ToString(Len(interpreted)) \o " sub-meanings"
           /\ cell.emergent_properties = <<"homeostasis">>

\* a Cell over five children, one of each level, interpreted after a
\* projection onto one of them: four entries, none for the Void child
C25_Witness ==
    /\ last.op = "interpret"
    /\ root # None
    /\ LET node == NodeAt(root[1], last.path)
       IN /\ node.level = "Cell"
          /\ {node.subobjects[i].level : i \in DOMAIN node.subobjects} = Levels
          /\ \E i \in DOMAIN node.subobjects :
                 node.subobjects[i].substrate.activations # <<>>
          /\ Len(last.ret[1].value.contributing_meanings) = 4

\* the positions of the immediate children of `node` that are of `level`
ChildrenOfLevel(node, level) ==
    {i \in DOMAIN node.subobjects : node.subobjects[i].level = level}

\* the k-th smallest member of a set of positions
KthOf(positions, k) ==
    CHOOSE i \in positions : Cardinality({j \in positions : j < i}) = k - 1

\* C26: the Molecule-level interpretation keeps only the immediate children
\* of level Atom, in child order; for n such atoms it has exactly n-1 bonds
\* when n >= 2, bond i linking the id of atom i to the id of atom i+1, and no
\* bond when n < 2.
C26_MoleculeBondsChainAtoms ==
    (last.op = "interpret" /\ root # None
        /\ NodeAt(root[1], last.path).level = "Molecule") =>
        LET node == NodeAt(root[1], last.path)
            molecule == last.ret[1].value
            atoms == ChildrenOfLevel(node, "Atom")
            n == Cardinality(atoms)
        IN /\ Len(molecule.constituent_atoms) = n
           /\ \A k \in 1..n :
                  molecule.constituent_atoms[k].id = node.subobjects[KthOf(atoms, k)].id
           /\ Len(molecule.bonds) = IF n >= 2 THEN n - 1 ELSE 0
           /\ \A k \in 1..(n - 1) :
                  molecule.bonds[k] =
                      node.subobjects[KthOf(atoms, k)].id \o "-"
                          \o node.subobjects[KthOf(atoms, k + 1)].id

\* a Molecule whose three Atoms are separated by children of other levels:
\* two bonds, between atoms that are not neighbours in the child list
C26_Witness ==
    /\ last.op = "interpret"
    /\ root # None
    /\ LET node == NodeAt(root[1], last.path)
       IN /\ node.level = "Molecule"
          /\ Len(node.subobjects) = 5
          /\ Cardinality(ChildrenOfLevel(node, "Atom")) = 3
          /\ last.ret[1].value.bonds = <<"a1-a2", "a2-a3">>

\* the sum of the activations of a substrate
RECURSIVE ActivationTotal(_)
ActivationTotal(act) ==
    IF DOMAIN act = {} THEN 0
    ELSE LET q == CHOOSE q \in DOMAIN act : TRUE
         IN act[q] + ActivationTotal([r \in (DOMAIN act) \ {q} |-> act[r]])

\* C27: the Atom-level interpretation's atomic_number is the number of
\* immediate children of level Particle, and constituent_particles lists
\* exactly those children's Particle interpretations, in child order;
\* immediate children of any other level and all deeper descendants are
\* ignored.
C27_AtomCountsImmediateParticles ==
    (last.op = "interpret" /\ root # None
        /\ NodeAt(root[1], last.path).level = "Atom") =>
        LET node == NodeAt(root[1], last.path)
            atom == last.ret[1].value
            particles == ChildrenOfLevel(node, "Particle")
            n == Cardinality(particles)
        IN /\ atom.atomic_number = n
           /\ Len(atom.constituent_particles) = n
           /\ \A k \in 1..n :
                  LET child == node.subobjects[KthOf(particles, k)]
                  IN /\ atom.constituent_particles[k].id = child.id
                     /\ atom.constituent_particles[k].energy =
                            ActivationTotal(child.substrate.activations)

\* an Atom over two Particles, a Void and an Atom with a Particle of its own,
\* interpreted after projections onto its last Particle and onto the
\* Particle two levels down: atomic number 2, energies 0 and 1.0
C27_Witness ==
    /\ last.op = "interpret"
    /\ root # None
    /\ LET node == NodeAt(root[1], last.path)
       IN /\ node.level = "Atom"
          /\ Len(node.subobjects) = 4
          /\ \E i \in DOMAIN node.subobjects :
                 /\ node.subobjects[i].level = "Atom"
                 /\ \E j \in DOMAIN node.subobjects[i].subobjects :
                        /\ node.subobjects[i].subobjects[j].level = "Particle"
                        /\ node.subobjects[i].subobjects[j].substrate.activations # <<>>
          /\ last.ret[1].value.atomic_number = 2
          /\ last.ret[1].value.constituent_particles[1].energy = 0
          /\ last.ret[1].value.constituent_particles[2].energy = One

(***************************************************************************)
(* Properties of repeated promotion, under SpecChain.                      *)
(***************************************************************************)

\* the number of levels of nodes of a tree: 1 for a leaf
RECURSIVE Depth(_)
Depth(obj) ==
    IF obj.subobjects = <<>> THEN 1
    ELSE LET below == {Depth(obj.subobjects[i]) : i \in DOMAIN obj.subobjects}
         IN 1 + (CHOOSE d \in below : \A e \in below : e <= d)

\* C28: promote called repeatedly on an object made by new at level L returns
\* an object exactly (4 - ordinal(L)) times and then returns nothing; each
\* call that returns an object raises the root's level by one and the depth
\* of the tree by one without changing the level of any node that was there
\* before, and no root is ever above Cell.
C28_PromoteClimbsToCell ==
    [][(harness.pc = "chain" /\ last'.op = "promote" /\ root # None)
        => IF harness.promoted < 4 - Ordinal(harness.level)
           THEN /\ Len(root') = 1
                /\ harness'.promoted = harness.promoted + 1
                /\ Ordinal(root'[1].level) = Ordinal(root[1].level) + 1
                /\ Ordinal(root'[1].level) <= 4
                /\ root'[1].level \in Levels
                /\ Depth(root'[1]) = Depth(root[1]) + 1
                /\ \A p \in Paths(root[1]) :
                       NodeAt(root'[1], <<1>> \o p).level = NodeAt(root[1], p).level
           ELSE /\ root' = <<>>
                /\ harness.promoted = 4 - Ordinal(harness.level)
                /\ harness'.promoted = harness.promoted]_vars

\* a Void made by new was promoted four times, up to Cell, and the fifth
\* call returned nothing
C28_Witness ==
    /\ harness.pc = "chain"
    /\ harness.level = "Void"
    /\ harness.promoted = 4
    /\ last.op = "promote"
    /\ root = <<>>

(***************************************************************************)
(* Properties of repeated interpretation, under SpecMixed.                 *)
(***************************************************************************)

\* C29: interpret() is computed from the tree as it is at the call and
\* leaves the tree unchanged: a call that directly follows a call on the same
\* node returns an equal result, and the result carries the present
\* activations of the substrates it reads (the node's own for a Particle,
\* the Particle children's for an Atom), whatever was projected into them or
\* decayed from them before the call.
C29_InterpretReadsCurrentTree ==
    [][last'.op = "interpret" =>
        /\ root' = root
        /\ (last.op = "interpret" /\ last.path = last'.path) => last'.ret = last.ret
        /\ LET node == NodeAt(root[1], last'.path)
               particles == ChildrenOfLevel(node, "Particle")
           IN /\ node.level = "Particle" =>
                     /\ last'.ret[1].value.energy =
                            ActivationTotal(node.substrate.activations)
                     /\ last'.ret[1].value.quantum_state =
                            "q" \o ToString(Cardinality(DOMAIN node.substrate.activations))
              /\ node.level = "Atom" =>
                     \A k \in 1..Cardinality(particles) :
                         LET child == node.subobjects[KthOf(particles, k)]
                             particle == last'.ret[1].value.constituent_particles[k]
                         IN /\ particle.energy =
                                   ActivationTotal(child.substrate.activations)
                            /\ particle.quantum_state =
                                   "q" \o ToString(Cardinality(DOMAIN child.substrate.activations))
       ]_vars

\* an Atom interpreted after one of its Particle children was projected into
\* and then decayed by a tick: the child's energy is reported as 0.95
C29_Witness ==
    /\ last.op = "interpret"
    /\ root # None
    /\ LET node == NodeAt(root[1], last.path)
       IN /\ node.level = "Atom"
          /\ \E k \in DOMAIN last.ret[1].value.constituent_particles :
                 /\ last.ret[1].value.constituent_particles[k].energy
                        = (One * (One - TickRate)) \div One
                 /\ last.ret[1].value.constituent_particles[k].quantum_state = "q1"

(***************************************************************************)
(* Properties of the order of traces and interpretants, under Spec.        *)
(***************************************************************************)

\* trace `after` is trace `before` some operations later: the same symbol and
\* tau_index, and the interpretants of `before` followed by zero or more
\* further ones
Continues(before, after) ==
    /\ after.symbol = before.symbol
    /\ after.tau_index = before.tau_index
    /\ Len(after.interpretants) >= Len(before.interpretants)
    /\ SubSeq(after.interpretants, 1, Len(before.interpretants)) = before.interpretants

\* C30: over every operation, each trace that stays in memory keeps its
\* earlier interpretants as they were and in their order, new ones coming
\* only at the end; the traces that stay keep their relative order, a trace
\* leaves only from the front (admission at capacity) or by decay, and a new
\* trace enters only at the back, so the field stays oldest-first.
C30_InterpretantsAppendOnly ==
    [][LET before == agent.memory.traces
           after == agent'.memory.traces
           admits == last'.op \in {"admit", "express_symbol"}
       IN \E kept \in SUBSET DOMAIN before : \E entered \in {0, 1} :
              /\ Len(after) = Cardinality(kept) + entered
              /\ \A k \in 1..Cardinality(kept) :
                     Continues(before[KthOf(kept, k)], after[k])
              /\ entered = 1 => admits
              /\ last'.op # "decay_memory" =>
                     \/ kept = DOMAIN before
                     \/ admits /\ entered = 1 /\ kept = DOMAIN before \ {1}
              /\ last'.op \notin {"interpret_symbol"} =>
                     \A k \in 1..Cardinality(kept) :
                         after[k].interpretants = before[KthOf(kept, k)].interpretants
      ]_vars

\* a successful interpret on a field of two traces, the older of which
\* already carried an interpretant of another tau: the new one came after it
C30_Witness ==
    /\ last.op = "interpret_symbol"
    /\ last.ret # None
    /\ Len(agent.memory.traces) >= 2
    /\ Len(agent.memory.traces[1].interpretants) = 2
    /\ agent.memory.traces[1].interpretants[1] # agent.memory.traces[1].interpretants[2]
    /\ agent.memory.traces[1].interpretants[2] = last.ret[1]
    /\ agent.memory.traces[2].symbol # agent.memory.traces[1].symbol

(***************************************************************************)
(* Properties of a run of ticks, under SpecDecay.                          *)
(***************************************************************************)

\* no agent of the tree holds a trace, no substrate holds an activation, and
\* the stabilities of the tree add up to 0
TreeDrained ==
    /\ root # None
    /\ \A p \in Paths(root[1]) :
           /\ DOMAIN NodeAt(root[1], p).substrate.activations = {}
           /\ \A i \in DOMAIN NodeAt(root[1], p).agents :
                  NodeAt(root[1], p).agents[i].memory.traces = <<>>
    /\ TotalStability(root[1], TraceSlots(root[1])) = 0

\* C31: once only tick_recursive is called, the tree is drained after
\* finitely many ticks (every memory empty, every substrate empty, the
\* aggregate stability 0) and stays drained; over each such tick the
\* aggregate stability does not increase.
C31_TicksDrainTree ==
    /\ (harness.pc = "ticking") ~> TreeDrained
    /\ [][(harness.pc = "ticking" /\ TreeDrained) => TreeDrained']_vars
    /\ [][last'.op = "tick_recursive" =>
            TotalStability(root'[1], TraceSlots(root'[1]))
                <= TotalStability(root[1], TraceSlots(root[1]))]_vars

\* a loaded tree is drained, after more than twenty ticks that each changed it
C31_Witness ==
    /\ harness.pc = "ticking"
    /\ harness.ticks > 20
    /\ TreeDrained

(***************************************************************************)
(* Properties of bindings without traces, under Spec.                      *)
(***************************************************************************)

\* no trace of the agent's memory carries `symbol`
NoTraceOf(a, symbol) ==
    \A j \in DOMAIN a.memory.traces : a.memory.traces[j].symbol # symbol

\* C32: no operation removes a binding of the symbol table, and only
\* express_symbol changes the table; interpret_symbol on a symbol whose
\* binding is current and which has no trace in memory returns the Meaning
\* of the symbol at tau and leaves the whole agent as it was.
C32_BindingOutlivesTrace ==
    [][/\ DOMAIN agent.symbol_table \subseteq DOMAIN agent'.symbol_table
       /\ last'.op # "express_symbol" => agent'.symbol_table = agent.symbol_table
       /\ (/\ last'.op = "interpret_symbol"
           /\ last'.symbol.token \in DOMAIN agent.symbol_table
           /\ agent.symbol_table[last'.symbol.token] = last'.symbol.pattern
           /\ NoTraceOf(agent, last'.symbol))
          => /\ last'.ret = Some(MeaningOf(last'.symbol, last'.tau))
             /\ agent' = agent
      ]_vars

\* an interpretation returned a Meaning for a bound symbol that has no trace
\* in a memory that holds a trace of another symbol
C32_Witness ==
    /\ last.op = "interpret_symbol"
    /\ last.ret # None
    /\ NoTraceOf(agent, last.symbol)
    /\ agent.memory.traces # <<>>
    /\ agent.memory.max_traces > 0

(***************************************************************************)
(* Properties of two traces of one symbol, under Spec.                     *)
(***************************************************************************)

\* the positions of the traces that follow an older trace of the same symbol
NewerTwins(traces) ==
    {j \in DOMAIN traces : \E i \in 1..(j - 1) : traces[i].symbol = traces[j].symbol}

\* C33: while memory holds two traces of the same symbol, the newer one has
\* no interpretants (interpretations go to the older one), and
\* detect_symmetry(agent, window) returns false for every window.
C33_TwinTracesNeverSymmetric ==
    NewerTwins(agent.memory.traces) # {} =>
        /\ \A j \in NewerTwins(agent.memory.traces) :
               agent.memory.traces[j].interpretants = <<>>
        /\ last.op = "detect_symmetry" => last.ret = Returned(FALSE)

(***************************************************************************)
(* Properties of a failed promotion, under SpecTree.                       *)
(***************************************************************************)

\* C34: promote on a Cell returns nothing and the caller is left without the
\* object: the Cell was moved into the call and dropped there, with its
\* subtree, agents and substrates, and no later operation brings a tree back.
C34_FailedPromoteConsumesCell ==
    [][/\ (last'.op = "promote" /\ root # None /\ root[1].level = "Cell")
          => (root' = None /\ last'.self = root[1])
       /\ root = None => root' = None
      ]_vars

\* a Cell over a subtree that held a trace and an activation was promoted:
\* nothing is left of it
C34_Witness ==
    /\ last.op = "promote"
    /\ root = None
    /\ last.self.level = "Cell"
    /\ \E p \in Paths(last.self) :
           DOMAIN NodeAt(last.self, p).substrate.activations # {}
    /\ \E p \in Paths(last.self) : \E i \in DOMAIN NodeAt(last.self, p).agents :
           NodeAt(last.self, p).agents[i].memory.traces # <<>>

(***************************************************************************)
(* Properties of the narrative runner, under SpecRunner.                   *)
(***************************************************************************)

\* C35: the execution of a While block always comes to its end: a block
\* whose condition is false on entry runs its body zero times, and a block
\* whose condition stays true runs its body exactly 1001 times and is then
\* broken.
C35_WhileRunsToTheLimit ==
    /\ ~(harness.pc = "aborted" /\ harness.blocks[harness.b].block = "While")
    /\ last.op = "while_done" =>
           /\ ~last.entered => last.ran = 0
           /\ last.broke => last.ran = WhileLimit + 1
           /\ last.cond = "always" => last.broke

\* C36: a MacroCall that returns leaves the variable table exactly as it
\* was before the call, while the agents and tau are as the body, run on
\* the bound parameters, left them; a call of an unknown macro, or with a
\* number of arguments other than the number of parameters, changes nothing.
C36_MacroCallRestoresVars ==
    [][(/\ last'.op = "execute_action"
        /\ last'.action.action = "MacroCall"
        /\ harness.pc = "body"
        /\ harness'.pc # "aborted")
       => LET ctx == harness.ctx
              name == last'.action.name
              args == last'.action.args
          IN /\ harness'.ctx.vars = ctx.vars
             /\ IF name \in DOMAIN ctx.macros
                   /\ Len(ctx.macros[name].params) = Len(args)
                THEN LET body == execute_actions(ctx.macros[name].body,
                                     bind_params(ctx.macros[name].params, args, ctx), 2)
                     IN /\ harness'.ctx.agents = body.ctx.agents
                        /\ harness'.ctx.tau = body.ctx.tau
                ELSE harness'.ctx = ctx
      ]_vars

\* greet(bob) returned: the agent remembers what the body said and tau
\* advanced by the body's tick, while `who` is bound as before the call and
\* the body's `tmp` is gone
C36_Witness ==
    /\ last.op = "execute_action"
    /\ last.action = ActionMacroCall("greet", <<"bob">>)
    /\ harness.pc = "body"
    /\ harness.ctx.vars = [v \in {"who"} |-> "outer"]
    /\ harness.ctx.agents["A"].memory = <<"hello_bob">>
    /\ harness.ctx.tau = 5
====
